---- MODULE Spec2Model ----
(***************************************************************************)
(* eSIM plan optimizers of ons96/esimdb_scraper.                           *)
(*                                                                         *)
(*   MR  optimize_esim_plans_multi_region.py : evaluate_combination, main  *)
(*   IT  optimize_itinerary.py : evaluate_itinerary, solve_segment, main   *)
(*                                                                         *)
(* Money is counted in cents (0.50 USD = 50), data in MB, time in days.    *)
(* Python indices are 0-based; sequences here are 1-based.                 *)
(***************************************************************************)
EXTENDS Integers, Sequences, FiniteSets, TLC

VARIABLES
    pc,                   \* position of main() / of the evaluator it calls
    solutions,            \* main: the heap list, later the sorted list
    result,               \* value returned by the evaluator for the current candidate
    printed,              \* COST lines printed by main, in order
    \* ---- MR: main() inputs and loop state
    plans_data,           \* search_plans (free plans + top paid plans)
    trip_days,
    total_data_mb,
    hassle_penalty,
    combo_i,              \* index of the current entry of combo_data_list
    counter,
    \* ---- MR: locals of evaluate_combination
    k,                    \* purchases of the candidate processed so far
    display_cost,
    ranking_cost,
    data,
    dur,
    info,
    provider_plan_count,
    provider_promo_used,
    total_activations,
    total_topups,
    total_accounts,
    \* ---- IT: main() loop state
    search_space,         \* final_space
    cand_i,               \* index of the current combo_indices of the enumeration
    cnt,
    res,                  \* value returned by evaluate_itinerary
    \* ---- IT: locals of evaluate_itinerary
    plans,                \* the working copies of the candidate's plans
    plan_i,               \* plans processed by the cost loop
    total_price,
    provider_seen_count,
    unique_providers,
    \* ---- IT: solve_segment called on its own
    itinerary,            \* ITINERARY of the run
    segs,                 \* the segments argument
    stack,                \* the active calls of solve_segment, outermost first
    next_idx,             \* seg_idx of the call being entered (1-based)
    ret,                  \* value returned by the last call that returned
    plans0,               \* history: the plans as passed to check_timeline_validity
    attempts,             \* history: the legs attempted, in order
    alloc                 \* history: alloc[i][s] = data plan i supplied to leg s

mainVars == <<pc, solutions, result, printed>>
mrInputs == <<plans_data, trip_days, total_data_mb, hassle_penalty>>
mrLocals == <<k, display_cost, ranking_cost, data, dur, info, provider_plan_count,
              provider_promo_used, total_activations, total_topups, total_accounts>>
mrVars == <<mrInputs, combo_i, counter, mrLocals>>
itLocals == <<plans, plan_i, total_price, provider_seen_count, unique_providers>>
itVars == <<search_space, cand_i, cnt, res, itLocals>>
svVars == <<itinerary, segs, stack, next_idx, ret, plans0, attempts, alloc>>

-----------------------------------------------------------------------------
(* Values *)

\* Python None (JSON null / absent key) and float('nan') (an empty CSV cell read
\* by pandas) where a number is expected, encoded below every price; an operator
\* tests for them before it does arithmetic on the value.
None == 0 - 1
NaN == 0 - 2

\* evaluate_combination's "return None"
NoResult == [returned |-> "None"]

IsNumber(x) == x \notin {None, NaN}

Max(a, b) == IF a >= b THEN a ELSE b
Min(a, b) == IF a <= b THEN a ELSE b

RECURSIVE SumSeq(_)
SumSeq(s) == IF s = <<>> THEN 0 ELSE Head(s) + SumSeq(Tail(s))

\* list.sort / sorted: a stable sort, so the result is the unique permutation
\* that orders by Less and keeps equal elements in their original order.
StableSort(seq, Less(_, _)) ==
    LET n == Len(seq)
        rank(i) == 1 + Cardinality({j \in 1..n :
                        \/ Less(seq[j], seq[i])
                        \/ (~Less(seq[i], seq[j]) /\ j < i)})
    IN  [r \in 1..n |-> seq[CHOOSE i \in 1..n : rank(i) = r]]

-----------------------------------------------------------------------------
(* Configuration of the multi-region optimizer *)

TOP_N_SOLUTIONS == 10
MAX_ESIM_ACTIVATIONS == 3
MAX_TOPUPS == 15
MAX_COMBO_SIZE == 5
SEARCH_SPACE_SIZE == 50
DEFAULT_PROMO_TYPE == "unlimited"
DEFAULT_HASSLE_PENALTY == 50

\* Bounds of the explored inputs
MaxPlans == 2             \* rows of the plan CSV

Providers == {"P1", "P2"}

\* plan_overrides.json / promo cache: P1 is classified one-time, P2 is not listed.
provider_promo_overrides == [pid \in {"P1"} |-> [promo_type |-> "one-time"]]

\* main: "Apply provider promo type to each plan"
ProviderPromoType(provider_id) ==
    IF provider_id \in DOMAIN provider_promo_overrides
    THEN provider_promo_overrides[provider_id].promo_type
    ELSE DEFAULT_PROMO_TYPE

\* <<usd_price, usd_promo_price>> of the rows explored
PricePairs == {<<0, 0>>, <<1000, NaN>>, <<1000, 500>>}

\* The rows a CSV of the explored catalogs can hold.
PlanRows ==
    { [provider_id |-> pid,
       usd_price |-> pp[1],
       usd_promo_price |-> pp[2],
       can_top_up |-> ctu,
       new_user_only |-> nuo,
       data_mb |-> 1024,
       validity_days |-> 7,
       hassle_penalty_per_account |-> None,
       provider_promo_type |-> ProviderPromoType(pid)]
      : pid \in Providers, pp \in PricePairs, ctu \in BOOLEAN, nuo \in BOOLEAN }

\* <<--trip-days, --data-gb * 1024>> of the runs explored
MainArgs == {<<7, 1024>>, <<15, 3072>>}

-----------------------------------------------------------------------------
(* MR main(): search space and candidate list *)

\* "Filter valid plans"
IsValidPlan(p) ==
    /\ p.usd_price # None
    /\ p.data_mb > 0
    /\ p.validity_days > 0

\* p.get("effective_price") or p.get("usd_price") or 0, where the scraper wrote
\* effective_price = promo price when there is one below the price, else the price.
EffectivePrice(p) ==
    LET effective_price ==
            IF IsNumber(p.usd_promo_price)
               /\ (p.usd_price \in {None, 0} \/ p.usd_promo_price < p.usd_price)
            THEN p.usd_promo_price ELSE p.usd_price
    IN  IF effective_price \notin {None, 0} THEN effective_price
        ELSE IF p.usd_price \notin {None, 0} THEN p.usd_price ELSE 0

\* max(days_covered, 0.1) with days_covered = min(data_mb / daily_data_need,
\* validity_days), times 10 * total_data_mb so that it is an integer.
DaysCoveredScaled(p, tdays, tmb) ==
    Max(Min(10 * p.data_mb * tdays, 10 * p.validity_days * tmb), tmb)

\* a["cpd"] < b["cpd"], cpd = effective / max(days_covered, 0.1)
CpdLess(a, b, tdays, tmb) ==
    EffectivePrice(a) * DaysCoveredScaled(b, tdays, tmb)
        < EffectivePrice(b) * DaysCoveredScaled(a, tdays, tmb)

\* seq[:n]
Take(seq, n) == SubSeq(seq, 1, Min(n, Len(seq)))

\* search_plans = free_plans + paid_plans of the plans sorted by cpd
SearchPlans(plans_list, tdays, tmb) ==
    LET valid_plans == SelectSeq(plans_list, IsValidPlan)
        Less(a, b) == CpdLess(a, b, tdays, tmb)
        sorted_plans == StableSort(valid_plans, Less)
        IsFreeRow(p) == p.usd_price = 0
        IsPaidRow(p) == p.usd_price > 0
        free_plans == SelectSeq(sorted_plans, IsFreeRow)
        paid_plans == Take(SelectSeq(sorted_plans, IsPaidRow), SEARCH_SPACE_SIZE)
    IN  free_plans \o paid_plans

\* qty_patterns for combinations of n plans
QtyPatterns(n) ==
    IF n = 1 THEN << <<1>>, <<2>>, <<3>>, <<5>>, <<10>> >>
    ELSE IF n = 2 THEN << <<1, 1>>, <<2, 1>>, <<1, 2>>, <<3, 1>>, <<2, 2>> >>
    ELSE IF n = 3 THEN << <<1, 1, 1>>, <<2, 1, 1>>, <<1, 2, 1>>, <<1, 1, 2>> >>
    ELSE << [i \in 1..n |-> 1] >>

RECURSIVE FlattenSeq(_)
FlattenSeq(ss) == IF ss = <<>> THEN <<>> ELSE Head(ss) \o FlattenSeq(Tail(ss))

\* itertools.combinations(range(lo, hi + 1), r), in its lexicographic order
RECURSIVE CombinationsFrom(_, _, _)
CombinationsFrom(lo, hi, r) ==
    IF r = 0 THEN << <<>> >>
    ELSE IF hi - lo + 1 < r THEN <<>>
    ELSE LET with == CombinationsFrom(lo + 1, hi, r - 1)
         IN  [j \in 1..Len(with) |-> <<lo>> \o with[j]]
                \o CombinationsFrom(lo + 1, hi, r)

\* all_combos: for n, for combo, for qty_pattern
AllCombos(nplans) ==
    LET ForN(n) ==
            LET combos == CombinationsFrom(1, nplans, n)
                pats == QtyPatterns(n)
            IN  FlattenSeq([c \in 1..Len(combos) |->
                    [q \in 1..Len(pats) |-> <<combos[c], pats[q]>>]])
    IN  FlattenSeq([n \in 1..Min(MAX_COMBO_SIZE, MAX_ESIM_ACTIVATIONS) |-> ForN(n)])

\* the candidate lists of the search spaces explored, by their number of plans
AllCombosOf == [n \in 0..(MaxPlans + 1) |-> AllCombos(n)]

combo_data_list == AllCombosOf[Len(plans_data)]

\* the candidate under evaluation
combo_indices == combo_data_list[combo_i][1]
qty_pattern == combo_data_list[combo_i][2]

-----------------------------------------------------------------------------
(* MR evaluate_combination: one iteration of "for idx, qty in zip(...)" *)

\* p.get("usd_price") or 0
RegularPrice(p) == IF p.usd_price \in {None, 0} THEN 0 ELSE p.usd_price

\* promo_price is not None and promo_price < regular_price  (NaN < x is False)
HasPromo(p) ==
    /\ p.usd_promo_price # None
    /\ p.usd_promo_price # NaN
    /\ p.usd_promo_price < RegularPrice(p)

PromoAlreadyUsed(p, promo_used) ==
    /\ p.provider_promo_type = "one-time"
    /\ p.provider_id \in promo_used

CanUsePromo(p, promo_used) ==
    IF p.provider_promo_type = "one-time"
    THEN HasPromo(p) /\ ~(p.provider_id \in promo_used)
    ELSE HasPromo(p)

\* regular_price == 0 and (promo_price is None or promo_price == 0)
IsFreePlan(p) ==
    /\ RegularPrice(p) = 0
    /\ (p.usd_promo_price = None \/ p.usd_promo_price = 0)

\* bug: a one-time promo is billed on every unit of the quantity
PlanDisplayCost_PromoOnAllUnits(p, qty, promo_used) ==
    IF IsFreePlan(p) THEN 0
    ELSE IF CanUsePromo(p, promo_used) THEN p.usd_promo_price * qty
    ELSE RegularPrice(p) * qty

\* bug: an unlimited promo is billed on the first unit only
PlanDisplayCost_FirstUnitOnly(p, qty, promo_used) ==
    IF IsFreePlan(p) THEN 0
    ELSE IF CanUsePromo(p, promo_used)
         THEN p.usd_promo_price + RegularPrice(p) * (qty - 1)
         ELSE RegularPrice(p) * qty

PlanDisplayCost(p, qty, promo_used) ==
    IF IsFreePlan(p) THEN 0
    ELSE IF CanUsePromo(p, promo_used)
         THEN IF p.provider_promo_type = "one-time"
              THEN p.usd_promo_price + RegularPrice(p) * (qty - 1)
              ELSE p.usd_promo_price * qty
         ELSE RegularPrice(p) * qty

UsedPromo(p, promo_used) == ~IsFreePlan(p) /\ CanUsePromo(p, promo_used)

\* bug: the provider is not recorded as having used its promo
PromoUsedAfter_NotRecorded(p, promo_used) == promo_used

\* provider_promo_used.add(provider_id)
PromoUsedAfter(p, promo_used) ==
    IF UsedPromo(p, promo_used) /\ p.provider_promo_type = "one-time"
    THEN promo_used \cup {p.provider_id}
    ELSE promo_used

AccountsNeeded(p, qty) ==
    IF IsFreePlan(p)
    THEN IF p.new_user_only THEN qty ELSE 1
    ELSE IF p.new_user_only THEN qty
         ELSE IF p.can_top_up THEN 1
         ELSE qty

\* p.get("hassle_penalty_per_account", hassle_penalty)
PlanHassle(p, penalty) ==
    IF p.hassle_penalty_per_account # None THEN p.hassle_penalty_per_account ELSE penalty

\* "Hassle cost for ranking only"
HassleCost(p, qty, penalty) == PlanHassle(p, penalty) * Max(0, AccountsNeeded(p, qty) - 1)

\* "Count activations vs top-ups"
ActivationsForPlan(p, qty) ==
    IF p.can_top_up /\ qty > 1 /\ ~p.new_user_only THEN 1 ELSE qty

TopupsForPlan(p, qty) ==
    IF p.can_top_up /\ qty > 1 /\ ~p.new_user_only THEN qty - 1 ELSE 0

\* total_activations += 1; if activations_for_plan > 1: += activations_for_plan - 1
ActivationsAdded(p, qty) ==
    1 + (IF ActivationsForPlan(p, qty) > 1 THEN ActivationsForPlan(p, qty) - 1 ELSE 0)

\* "Store actual price paid (for display)"
DisplayPrice(p, promo_used) ==
    IF RegularPrice(p) = 0 THEN 0
    ELSE IF CanUsePromo(p, promo_used) THEN p.usd_promo_price
    ELSE RegularPrice(p)

InfoEntry(idx, p, qty, promo_used) ==
    [idx |-> idx,
     provider |-> p.provider_id,
     price |-> DisplayPrice(p, promo_used),
     total_price |-> PlanDisplayCost(p, qty, promo_used),
     qty |-> qty,
     free |-> RegularPrice(p) = 0,
     can_top_up |-> p.can_top_up /\ ~p.new_user_only,
     promo_warning |-> PromoAlreadyUsed(p, promo_used) /\ HasPromo(p)
                          /\ p.usd_promo_price # None,
     accounts |-> AccountsNeeded(p, qty),
     used_promo |-> UsedPromo(p, promo_used)]

\* bug: the activation limit is not checked
WithinLimits_TopupsOnly(activations, topups) == ~(topups > MAX_TOPUPS)

\* the limits and the data/duration constraints at the end of the evaluation
WithinLimits(activations, topups) ==
    /\ ~(activations > MAX_ESIM_ACTIVATIONS)
    /\ ~(topups > MAX_TOPUPS)

MeetsRequirement(d, days, tdays, tmb) == d >= tmb /\ days >= tdays

NoCounts == [pid \in Providers |-> 0]

\* the set of providers whose promo was used is kept from one call to the next
EvalBegin_KeepsPromoUsed ==
    /\ k' = 0
    /\ display_cost' = 0
    /\ ranking_cost' = 0
    /\ data' = 0
    /\ dur' = 0
    /\ info' = <<>>
    /\ provider_plan_count' = NoCounts
    /\ provider_promo_used' = provider_promo_used
    /\ total_activations' = 0
    /\ total_topups' = 0
    /\ total_accounts' = 0

\* entry of evaluate_combination: the values its locals start with
EvalBegin ==
    /\ k' = 0
    /\ display_cost' = 0
    /\ ranking_cost' = 0
    /\ data' = 0
    /\ dur' = 0
    /\ info' = <<>>
    /\ provider_plan_count' = NoCounts
    /\ provider_promo_used' = {}
    /\ total_activations' = 0
    /\ total_topups' = 0
    /\ total_accounts' = 0

\* bug: the hassle cost leaks into the displayed cost
DisplayCostAfter_WithHassle(cost, p, qty, promo_used, penalty) ==
    cost + PlanDisplayCost(p, qty, promo_used) + HassleCost(p, qty, penalty)

\* display_cost += plan_display_cost
DisplayCostAfter(cost, p, qty, promo_used, penalty) ==
    cost + PlanDisplayCost(p, qty, promo_used)

\* ranking_cost += plan_display_cost + hassle_cost
RankingCostAfter(cost, p, qty, promo_used, penalty) ==
    cost + PlanDisplayCost(p, qty, promo_used) + HassleCost(p, qty, penalty)

\* one iteration of the loop over the candidate's purchases
EvalPurchase ==
    /\ pc = "loop"
    /\ combo_i <= Len(combo_data_list)
    /\ k < Len(combo_indices)
    /\ LET idx == combo_indices[k + 1]
           qty == qty_pattern[k + 1]
           p == plans_data[idx]
       IN  /\ display_cost' = DisplayCostAfter(display_cost, p, qty,
                                                   provider_promo_used, hassle_penalty)
           /\ ranking_cost' = RankingCostAfter(ranking_cost, p, qty,
                                                   provider_promo_used, hassle_penalty)
           /\ provider_promo_used' = PromoUsedAfter(p, provider_promo_used)
           /\ provider_plan_count' =
                  [provider_plan_count EXCEPT ![p.provider_id] = @ + 1]
           /\ total_activations' = total_activations + ActivationsAdded(p, qty)
           /\ total_topups' = total_topups + TopupsForPlan(p, qty)
           /\ total_accounts' = total_accounts + AccountsNeeded(p, qty)
           /\ data' = data + p.data_mb * qty
           /\ dur' = Max(dur, p.validity_days * qty)
           /\ info' = Append(info, InfoEntry(idx, p, qty, provider_promo_used))
    /\ k' = k + 1
    /\ UNCHANGED <<pc, solutions, result, printed, mrInputs, combo_i, counter>>
    /\ UNCHANGED itVars
    /\ UNCHANGED svVars

\* the returned dict: its costs and counters (its "info" list is the local info,
\* which stays as returned until the next call)
EvalResult ==
    [display_cost |-> display_cost,
     ranking_cost |-> ranking_cost,
     total_activations |-> total_activations,
     total_topups |-> total_topups,
     total_accounts |-> total_accounts]

\* "Check limits", "Check data/duration constraints": the returned value
EvalReturn ==
    /\ pc = "loop"
    /\ combo_i <= Len(combo_data_list)
    /\ k = Len(combo_indices)
    /\ result' = IF /\ WithinLimits(total_activations, total_topups)
                    /\ MeetsRequirement(data, dur, trip_days, total_data_mb)
                 THEN EvalResult
                 ELSE NoResult
    /\ pc' = "collect"
    /\ UNCHANGED <<solutions, printed, mrVars>>
    /\ UNCHANGED itVars
    /\ UNCHANGED svVars

-----------------------------------------------------------------------------
(* heapq on a list of tuples <<key, counter, result>> *)

\* tuple comparison a < b; counters are distinct, so the results are never compared
ItemLess(a, b) == a[1] < b[1] \/ (a[1] = b[1] /\ a[2] < b[2])

\* heapq._siftdown(heap, startpos, pos) with newitem = heap[pos]  (0-based positions)
RECURSIVE SiftDown(_, _, _, _)
SiftDown(heap, startpos, pos, newitem) ==
    IF pos > startpos
    THEN LET parentpos == (pos - 1) \div 2
             parent == heap[parentpos + 1]
         IN  IF ItemLess(newitem, parent)
             THEN SiftDown([heap EXCEPT ![pos + 1] = parent], startpos, parentpos, newitem)
             ELSE [heap EXCEPT ![pos + 1] = newitem]
    ELSE [heap EXCEPT ![pos + 1] = newitem]

\* heapq._siftup(heap, pos): move the smaller child up to a leaf, then sift down
RECURSIVE SiftUp(_, _, _, _)
SiftUp(heap, startpos, pos, newitem) ==
    LET endpos == Len(heap)
        childpos == 2 * pos + 1
        rightpos == childpos + 1
    IN  IF childpos < endpos
        THEN LET c == IF rightpos < endpos
                         /\ ~ItemLess(heap[childpos + 1], heap[rightpos + 1])
                      THEN rightpos ELSE childpos
             IN  SiftUp([heap EXCEPT ![pos + 1] = heap[c + 1]], startpos, c, newitem)
        ELSE SiftDown([heap EXCEPT ![pos + 1] = newitem], startpos, pos, newitem)

HeapPush(heap, item) == SiftDown(Append(heap, item), 0, Len(heap), item)

HeapReplace(heap, item) == SiftUp([heap EXCEPT ![1] = item], 0, 0, item)

-----------------------------------------------------------------------------
(* MR main(): the loop over combo_data_list, the sort and the printout *)

\* bug: a candidate that ties the worst kept solution replaces it
Retain_ReplaceOnTie(heap, new_result, new_counter) ==
    IF Len(heap) < TOP_N_SOLUTIONS
    THEN HeapPush(heap, <<-new_result.ranking_cost, new_counter, new_result>>)
    ELSE IF new_result.ranking_cost <= -heap[1][1]
         THEN HeapReplace(heap, <<-new_result.ranking_cost, new_counter, new_result>>)
         ELSE heap

\* the heap after "if result:" for an accepted result numbered cnt
Retain(heap, new_result, new_counter) ==
    IF Len(heap) < TOP_N_SOLUTIONS
    THEN HeapPush(heap, <<-new_result.ranking_cost, new_counter, new_result>>)
    ELSE IF new_result.ranking_cost < -heap[1][1]
         THEN HeapReplace(heap, <<-new_result.ranking_cost, new_counter, new_result>>)
         ELSE heap

MainCollect ==
    /\ pc = "collect"
    /\ IF result # NoResult
       THEN /\ counter' = counter + 1
            /\ solutions' = Retain(solutions, result, counter + 1)
       ELSE UNCHANGED <<counter, solutions>>
    /\ combo_i' = combo_i + 1
    /\ EvalBegin
    /\ pc' = "loop"
    /\ UNCHANGED <<result, printed, mrInputs>>
    /\ UNCHANGED itVars
    /\ UNCHANGED svVars

\* bug: the heap list is returned in heap order, unsorted
SortedByRankingCost_HeapOrder(heap) == [i \in 1..Len(heap) |-> heap[i][3]]

\* sorted(solutions, key=lambda x: -x[0]): ascending ranking cost, stable
SortedByRankingCost(heap) ==
    LET Less(a, b) == -a[1] < -b[1]
        sorted == StableSort(heap, Less)
    IN  [i \in 1..Len(sorted) |-> sorted[i][3]]

MainSort ==
    /\ pc = "loop"
    /\ combo_i > Len(combo_data_list)
    /\ solutions' = SortedByRankingCost(solutions)
    /\ pc' = "print"
    /\ UNCHANGED <<result, printed, mrVars>>
    /\ UNCHANGED itVars
    /\ UNCHANGED svVars

\* the COST line of every solution of solutions[:TOP_N_SOLUTIONS]
MainPrint ==
    /\ pc = "print"
    /\ printed' = [i \in 1..Min(Len(solutions), TOP_N_SOLUTIONS) |->
                      solutions[i].display_cost]
    /\ pc' = "done"
    /\ UNCHANGED <<solutions, result, mrVars>>
    /\ UNCHANGED itVars
    /\ UNCHANGED svVars

\* the variables of a stand-alone solve_segment run while an optimizer runs
SvIdle ==
    /\ itinerary = <<>>
    /\ segs = <<>>
    /\ stack = <<>>
    /\ next_idx = 0
    /\ ret = FALSE
    /\ plans0 = <<>>
    /\ attempts = <<>>
    /\ alloc = <<>>

\* the itinerary optimizer's variables while the multi-region optimizer runs
Invalid == [valid |-> FALSE, ranking_cost |-> 0]

\* the providers of the itinerary catalogs explored
ItProviders == Providers \cup {"P3", "P4"}

NoSeen == [pid \in ItProviders |-> 0]

ItIdle ==
    /\ search_space = <<>>
    /\ cand_i = 1
    /\ cnt = 0
    /\ res = Invalid
    /\ plans = <<>>
    /\ plan_i = 0
    /\ total_price = 0
    /\ provider_seen_count = NoSeen
    /\ unique_providers = {}

InitMR ==
    /\ \E args \in MainArgs : trip_days = args[1] /\ total_data_mb = args[2]
    /\ hassle_penalty = DEFAULT_HASSLE_PENALTY
    /\ \E n \in 0..MaxPlans : \E plans_list \in [1..n -> PlanRows] :
           plans_data = SearchPlans(plans_list, trip_days, total_data_mb)
    /\ combo_i = 1
    /\ counter = 0
    /\ solutions = <<>>
    /\ result = NoResult
    /\ printed = <<>>
    /\ pc = "loop"
    /\ k = 0
    /\ display_cost = 0
    /\ ranking_cost = 0
    /\ data = 0
    /\ dur = 0
    /\ info = <<>>
    /\ provider_plan_count = NoCounts
    /\ provider_promo_used = {}
    /\ total_activations = 0
    /\ total_topups = 0
    /\ total_accounts = 0
    /\ ItIdle
    /\ SvIdle

NextMR ==
    \/ EvalPurchase
    \/ EvalReturn
    \/ MainCollect
    \/ MainSort
    \/ MainPrint

vars == <<mainVars, mrVars, itVars, svVars>>

SpecMR == InitMR /\ [][NextMR]_vars

-----------------------------------------------------------------------------
(* Configuration and inputs of the itinerary optimizer *)

IT_SEARCH_SPACE_SIZE == 40
IT_MAX_COMBO_SIZE == 4
IT_TOP_N_SOLUTIONS == 10
IT_DEFAULT_HASSLE_PENALTY == 50

\* Bound of the explored inputs
MaxRows == 2              \* rows of esim_plans_itinerary.csv

\* The itinerary explored: two legs, 3 days and 3000 MB in all.
ITINERARY ==
    << [slug |-> "A", days |-> 2, mb |-> 1000],
       [slug |-> "B", days |-> 1, mb |-> 2000] >>

TOTAL_DURATION == SumSeq([i \in 1..Len(ITINERARY) |-> ITINERARY[i].days])
total_mb_needed == SumSeq([i \in 1..Len(ITINERARY) |-> ITINERARY[i].mb])

\* daily_usage_rate = total_mb_needed / TOTAL_DURATION is a fraction. Times are kept
\* in ticks of 1 / total_mb_needed day and data in units of
\* 1 / (TOTAL_DURATION * total_mb_needed) MB, which makes every quantity an integer.
TimeScale == total_mb_needed
DataScale == TOTAL_DURATION * total_mb_needed

\* <<scope, coverage, data_mb, validity_days, data_cap_per, new_user_only>>
Shapes ==
    { <<"regional", {"A", "B"}, 3000, 3, "total", FALSE>>,
      <<"regional", {"A", "B"}, 3000, 3, "total", TRUE>>,
      <<"local", {"A"}, 1000, 2, "total", FALSE>>,
      <<"local", {"B"}, 2000, 1, "total", FALSE>> }

ItPricePairs == {<<1000, 1000>>, <<1000, 500>>}

\* The rows of the explored CSVs. The plan name tells apart the offers of a provider.
ItRows ==
    { [provider_id |-> pid,
       plan_name |-> <<sh[1], sh[2], sh[6], pp>>,
       scope |-> sh[1],
       coverage |-> sh[2],
       data_mb |-> sh[3],
       validity_days |-> sh[4],
       data_cap_per |-> sh[5],
       new_user_only |-> sh[6],
       usd_price |-> pp[1],
       usd_promo_price |-> pp[2],
       provider_promo_type |-> ProviderPromoType(pid)]
      : pid \in Providers, sh \in Shapes, pp \in ItPricePairs }

\* A catalog of four providers, each offering one regional plan for the whole trip.
FourProviderRows ==
    [i \in 1..4 |->
        [provider_id |-> <<"P1", "P2", "P3", "P4">>[i],
         plan_name |-> <<"regional", {"A", "B"}, FALSE, <<1000, 1000>>>>,
         scope |-> "regional",
         coverage |-> {"A", "B"},
         data_mb |-> 3000,
         validity_days |-> 3,
         data_cap_per |-> "total",
         new_user_only |-> FALSE,
         usd_price |-> 1000,
         usd_promo_price |-> 1000,
         provider_promo_type |-> ProviderPromoType(<<"P1", "P2", "P3", "P4">>[i])]]

-----------------------------------------------------------------------------
(* IT main(): search space and enumeration *)

\* x.get("usd_promo_price") or x["usd_price"]
PromoOrPrice(p) ==
    IF p.usd_promo_price \notin {None, 0} THEN p.usd_promo_price ELSE p.usd_price

\* key (promo or price) / data_mb
ValueLess(a, b) == PromoOrPrice(a) * b.data_mb < PromoOrPrice(b) * a.data_mb

\* key (promo or price)
PriceLess(a, b) == PromoOrPrice(a) < PromoOrPrice(b)

DedupKey(p) == <<p.provider_id, p.plan_name, p.data_mb>>

\* add_unique(candidates) on final_space
RECURSIVE AddUnique(_, _)
AddUnique(final_space, candidates) ==
    IF candidates = <<>> THEN final_space
    ELSE LET p == Head(candidates)
             seen == {DedupKey(final_space[i]) : i \in 1..Len(final_space)}
         IN  AddUnique(IF DedupKey(p) \in seen THEN final_space
                       ELSE Append(final_space, p),
                       Tail(candidates))

FinalSpace(rows) ==
    LET Valid(p) == p.usd_price # None /\ p.data_mb > 0 /\ p.validity_days > 0
        valid_plans == SelectSeq(rows, Valid)
        Regional(p) == p.scope = "regional"
        Local(p) == p.scope = "local"
        RegionalLarge(p) == p.scope = "regional" /\ p.data_mb >= 3000
        LocalLarge(p) == p.scope = "local" /\ p.data_mb >= 3000
        regional_value == StableSort(SelectSeq(valid_plans, Regional), ValueLess)
        local_value == StableSort(SelectSeq(valid_plans, Local), ValueLess)
        regional_large == StableSort(SelectSeq(valid_plans, RegionalLarge), PriceLess)
        local_large == StableSort(SelectSeq(valid_plans, LocalLarge), PriceLess)
    IN  AddUnique(AddUnique(AddUnique(AddUnique(<<>>,
            Take(regional_value, 15)), Take(local_value, 20)),
            Take(regional_large, 10)), Take(local_large, 15))

\* itertools.combinations_with_replacement(range(lo, hi + 1), r)
RECURSIVE CwrFrom(_, _, _)
CwrFrom(lo, hi, r) ==
    IF r = 0 THEN << <<>> >>
    ELSE IF lo > hi THEN <<>>
    ELSE LET with == CwrFrom(lo, hi, r - 1)
         IN  [j \in 1..Len(with) |-> <<lo>> \o with[j]] \o CwrFrom(lo + 1, hi, r)

\* the enumeration started at r = 0: the empty combination comes first
Enumeration_FromEmptyCombo(n) ==
    << <<>> >> \o FlattenSeq([r \in 1..IT_MAX_COMBO_SIZE |-> CwrFrom(1, n, r)])

\* the combo_indices of "for r ...: for combo_indices in ...", in order
Enumeration(n) ==
    FlattenSeq([r \in 1..IT_MAX_COMBO_SIZE |-> CwrFrom(1, n, r)])

EnumerationOf == [n \in 0..Max(MaxRows, Len(FourProviderRows)) |-> Enumeration(n)]

enumeration == EnumerationOf[Len(search_space)]

combo_plans == [i \in 1..Len(enumeration[cand_i]) |-> search_space[enumeration[cand_i][i]]]

-----------------------------------------------------------------------------
(* IT evaluate_itinerary: new-user check and working copies *)

NotStarted == 0 - 1       \* "_start_time" not in p

\* a limit of one new-user plan for the whole candidate, whatever the provider
NewUserRejected_AnyProvider(combo) ==
    \E i \in 1..Len(combo) : \E j \in 1..(i - 1) :
        /\ combo[i].new_user_only
        /\ combo[j].new_user_only

\* "STRICT: Max 1 new user plan per PROVIDER": the loop returns invalid at the
\* second new_user_only plan of a provider
NewUserRejected(combo) ==
    \E i \in 1..Len(combo) : \E j \in 1..(i - 1) :
        /\ combo[i].new_user_only
        /\ combo[j].new_user_only
        /\ combo[i].provider_id = combo[j].provider_id

\* effective_days taken as validity_days, not capped by data_mb / daily_usage_rate
WorkingCopy_DaysUncapped(p, idx) ==
    [provider_id |-> p.provider_id,
     coverage |-> p.coverage,
     data_mb |-> p.data_mb,
     validity_days |-> p.validity_days,
     usd_price |-> p.usd_price,
     usd_promo_price |-> p.usd_promo_price,
     provider_promo_type |-> p.provider_promo_type,
     new_user_only |-> p.new_user_only,
     id |-> idx,
     effective_mb |-> Min(p.data_mb * DataScale, p.validity_days * TimeScale * TimeScale),
     remaining_mb |-> Min(p.data_mb * DataScale, p.validity_days * TimeScale * TimeScale),
     effective_days |-> p.validity_days * TimeScale,
     daily_cap |-> IF p.data_cap_per = "day" THEN p.data_mb ELSE None,
     start_time |-> NotStarted,
     final_price |-> None,
     price_note |-> "-"]

\* pc = p.copy() with its effective data and duration
WorkingCopy(p, idx) ==
    [provider_id |-> p.provider_id,
     coverage |-> p.coverage,
     data_mb |-> p.data_mb,
     validity_days |-> p.validity_days,
     usd_price |-> p.usd_price,
     usd_promo_price |-> p.usd_promo_price,
     provider_promo_type |-> p.provider_promo_type,
     new_user_only |-> p.new_user_only,
     id |-> idx,
     effective_mb |-> Min(p.data_mb * DataScale, p.validity_days * TimeScale * TimeScale),
     remaining_mb |-> Min(p.data_mb * DataScale, p.validity_days * TimeScale * TimeScale),
     effective_days |-> Min(p.validity_days * TimeScale, p.data_mb * TOTAL_DURATION),
     daily_cap |-> IF p.data_cap_per = "day" THEN p.data_mb ELSE None,
     start_time |-> NotStarted,
     final_price |-> None,
     price_note |-> "-"]

\* p.get("daily_cap"): a cap that is neither None nor 0
DailyCapped(p) == p.daily_cap \notin {None, 0}

\* segments, in ticks and data units
RECURSIVE SegmentStart(_)
SegmentStart(i) == IF i = 1 THEN 0 ELSE SegmentStart(i - 1) + ITINERARY[i - 1].days

segments ==
    [i \in 1..Len(ITINERARY) |->
        [slug |-> ITINERARY[i].slug,
         start |-> SegmentStart(i) * TimeScale,
         end |-> (SegmentStart(i) + ITINERARY[i].days) * TimeScale,
         mb_needed |-> ITINERARY[i].mb * DataScale]]

-----------------------------------------------------------------------------
(* IT solve_segment *)

\* max_mb taken from the plan's effective data instead of what is left of it
MaxContribution_Effective(p, seg) ==
    LET starts_at == IF p.start_time # NotStarted THEN p.start_time ELSE seg.start
        expires_at == starts_at + p.effective_days
        overlap_start == Max(starts_at, seg.start)
        overlap_end == Min(expires_at, seg.end)
        overlap_days == Max(0, overlap_end - overlap_start)
    IN  IF ~(seg.slug \in p.coverage) THEN None
        ELSE IF overlap_days <= 0 THEN None
        ELSE IF DailyCapped(p) THEN p.daily_cap * overlap_days * TOTAL_DURATION
        ELSE p.effective_mb

\* candidates taken from all plans, whatever they cover
MaxContribution_AnyTerritory(p, seg) ==
    LET starts_at == IF p.start_time # NotStarted THEN p.start_time ELSE seg.start
        expires_at == starts_at + p.effective_days
        overlap_start == Max(starts_at, seg.start)
        overlap_end == Min(expires_at, seg.end)
        overlap_days == Max(0, overlap_end - overlap_start)
    IN  IF overlap_days <= 0 THEN None
        ELSE IF DailyCapped(p) THEN p.daily_cap * overlap_days * TOTAL_DURATION
        ELSE p.remaining_mb

\* plans offered without "if overlap_days <= 0: continue"
MaxContribution_Expired(p, seg) ==
    LET starts_at == IF p.start_time # NotStarted THEN p.start_time ELSE seg.start
        expires_at == starts_at + p.effective_days
        overlap_start == Max(starts_at, seg.start)
        overlap_end == Min(expires_at, seg.end)
        overlap_days == Max(0, overlap_end - overlap_start)
    IN  IF ~(seg.slug \in p.coverage) THEN None
        ELSE IF DailyCapped(p) THEN p.daily_cap * overlap_days * TOTAL_DURATION
        ELSE p.remaining_mb

\* max contribution of working copy p to segment seg, None when it is skipped
MaxContribution(p, seg) ==
    LET starts_at == IF p.start_time # NotStarted THEN p.start_time ELSE seg.start
        expires_at == starts_at + p.effective_days
        overlap_start == Max(starts_at, seg.start)
        overlap_end == Min(expires_at, seg.end)
        overlap_days == Max(0, overlap_end - overlap_start)
    IN  IF ~(seg.slug \in p.coverage) THEN None
        ELSE IF overlap_days <= 0 THEN None
        ELSE IF DailyCapped(p) THEN p.daily_cap * overlap_days * TOTAL_DURATION
        ELSE p.remaining_mb

\* sort_key: (-started, validity_days)
ContribLess(ps, a, b) ==
    LET sa == IF ps[a].start_time # NotStarted THEN 1 ELSE 0
        sb == IF ps[b].start_time # NotStarted THEN 1 ELSE 0
    IN  \/ -sa < -sb
        \/ (-sa = -sb /\ ps[a].validity_days < ps[b].validity_days)

\* the greedy loop "for p, possible in plan_contribs": order is the sorted list of
\* plan positions still to visit, possible the contributions computed before it
RECURSIVE Fill(_, _, _, _, _)
Fill(ps, order, possible, left_to_fill, seg) ==
    IF order = <<>> \/ left_to_fill <= 0 THEN <<ps, left_to_fill>>
    ELSE LET i == Head(order)
             amount == Min(possible[i], left_to_fill)
             started == [ps EXCEPT ![i].start_time =
                            IF @ = NotStarted THEN seg.start ELSE @]
             consumed == IF ~DailyCapped(ps[i])
                         THEN [started EXCEPT ![i].remaining_mb = @ - amount]
                         ELSE started
         IN  Fill(consumed, Tail(order), possible, left_to_fill - amount, seg)

\* solve_segment(seg_idx, segments, plans): <<feasible, plans after the call>>
RECURSIVE SolveSegment(_, _)
SolveSegment(seg_idx, ps) ==
    IF seg_idx > Len(segments) THEN <<TRUE, ps>>
    ELSE LET seg == segments[seg_idx]
             possible == [i \in 1..Len(ps) |-> MaxContribution(ps[i], seg)]
             listed == SelectSeq([i \in 1..Len(ps) |-> i], LAMBDA i : possible[i] # None)
             total == SumSeq([j \in 1..Len(listed) |-> possible[listed[j]]])
             Less(a, b) == ContribLess(ps, a, b)
             order == StableSort(listed, Less)
             filled == Fill(ps, order, possible, seg.mb_needed, seg)
         IN  IF total < seg.mb_needed THEN <<FALSE, ps>>
             ELSE IF filled[2] > 1 * DataScale THEN <<FALSE, ps>>   \* rollback
             ELSE LET rest == SolveSegment(seg_idx + 1, filled[1])
                  IN  IF rest[1] THEN rest ELSE <<FALSE, ps>>       \* rollback

check_timeline_validity(ps) == SolveSegment(1, ps)

-----------------------------------------------------------------------------
(* IT evaluate_itinerary and main(): actions *)

\* the new-user check and the working copies, then the timeline simulation
ItTimeline ==
    /\ pc = "it_call"
    /\ cand_i <= Len(enumeration)
    /\ IF NewUserRejected(combo_plans)
       THEN /\ res' = Invalid
            /\ pc' = "it_collect"
            /\ UNCHANGED plans
       ELSE \E solved \in {check_timeline_validity(
                    [i \in 1..Len(combo_plans) |-> WorkingCopy(combo_plans[i], i - 1)])} :
                /\ plans' = solved[2]
                /\ IF solved[1]
                   THEN /\ pc' = "it_cost"
                        /\ UNCHANGED res
                   ELSE /\ res' = Invalid
                        /\ pc' = "it_collect"
    /\ plan_i' = 0
    /\ total_price' = 0
    /\ provider_seen_count' = NoSeen
    /\ unique_providers' = {}
    /\ UNCHANGED <<solutions, result, printed, search_space, cand_i, cnt>>
    /\ UNCHANGED mrVars
    /\ UNCHANGED svVars

\* has_promo = promo_price is not None and promo_price < reg_price
ItHasPromo(p) ==
    /\ p.usd_promo_price # None
    /\ p.usd_promo_price # NaN
    /\ p.usd_promo_price < p.usd_price

\* "Determine if promo applies"
ApplyPromo(p, seen_count) ==
    /\ ItHasPromo(p)
    /\ IF p.provider_promo_type = "one-time"
       THEN seen_count[p.provider_id] = 0
       ELSE TRUE

\* if ptype == "one-time": provider_seen_count[pid] += 1
SeenCountAfter(p, seen_count) ==
    IF p.provider_promo_type = "one-time"
    THEN [seen_count EXCEPT ![p.provider_id] = @ + 1]
    ELSE seen_count

\* one iteration of "for p in plans" of the cost calculation
ItCostStep ==
    /\ pc = "it_cost"
    /\ plan_i < Len(plans)
    /\ LET p == plans[plan_i + 1]
           apply_promo == ApplyPromo(p, provider_seen_count)
           price == IF apply_promo THEN p.usd_promo_price ELSE p.usd_price
       IN  /\ plans' = [plans EXCEPT ![plan_i + 1].final_price = price,
                                     ![plan_i + 1].price_note =
                                         IF apply_promo THEN "PROMO" ELSE "REG"]
           /\ unique_providers' = unique_providers \cup {p.provider_id}
           /\ provider_seen_count' = SeenCountAfter(p, provider_seen_count)
           /\ total_price' = total_price + price
    /\ plan_i' = plan_i + 1
    /\ UNCHANGED <<pc, solutions, result, printed, search_space, cand_i, cnt, res>>
    /\ UNCHANGED mrVars
    /\ UNCHANGED svVars

\* hassle_cost = (len(plans) - 1) * hassle_penalty
ItHassleCost(nplans, penalty) == (nplans - 1) * penalty

ItReturn ==
    /\ pc = "it_cost"
    /\ plan_i = Len(plans)
    /\ res' = [valid |-> TRUE,
               ranking_cost |-> total_price
                                  + ItHassleCost(Len(plans), IT_DEFAULT_HASSLE_PENALTY),
               display_cost |-> total_price,
               activations |-> Cardinality(unique_providers),
               top_ups |-> Len(plans) - Cardinality(unique_providers)]
    /\ pc' = "it_collect"
    /\ UNCHANGED <<solutions, result, printed, search_space, cand_i, cnt, itLocals>>
    /\ UNCHANGED mrVars
    /\ UNCHANGED svVars

\* the loop left at the first invalid candidate
ItCollect_StopsAtInvalid ==
    /\ pc = "it_collect"
    /\ IF res.valid
       THEN /\ cnt' = cnt + 1
            /\ solutions' = HeapPush(solutions, <<res.ranking_cost, cnt + 1, res>>)
            /\ cand_i' = cand_i + 1
       ELSE /\ cand_i' = Len(enumeration) + 1
            /\ UNCHANGED <<cnt, solutions>>
    /\ pc' = "it_call"
    /\ UNCHANGED <<result, printed, search_space, res, itLocals>>
    /\ UNCHANGED mrVars
    /\ UNCHANGED svVars

\* if res["valid"]: cnt += 1; heapq.heappush(solutions, (ranking_cost, cnt, res))
ItCollect ==
    /\ pc = "it_collect"
    /\ IF res.valid
       THEN /\ cnt' = cnt + 1
            /\ solutions' = HeapPush(solutions, <<res.ranking_cost, cnt + 1, res>>)
       ELSE UNCHANGED <<cnt, solutions>>
    /\ cand_i' = cand_i + 1
    /\ pc' = "it_call"
    /\ UNCHANGED <<result, printed, search_space, res, itLocals>>
    /\ UNCHANGED mrVars
    /\ UNCHANGED svVars

\* solutions.sort(key=lambda x: x[0])
ItSorted(heap) ==
    LET Less(a, b) == a[1] < b[1]
    IN  StableSort(heap, Less)

ItSort ==
    /\ pc = "it_call"
    /\ cand_i > Len(enumeration)
    /\ solutions' = ItSorted(solutions)
    /\ pc' = "it_print"
    /\ UNCHANGED <<result, printed, itVars>>
    /\ UNCHANGED mrVars
    /\ UNCHANGED svVars

\* print_solution for solutions[:TOP_N_SOLUTIONS]: the COST line shows display_cost
ItPrint ==
    /\ pc = "it_print"
    /\ printed' = [i \in 1..Min(Len(solutions), IT_TOP_N_SOLUTIONS) |->
                      solutions[i][3].display_cost]
    /\ pc' = "it_done"
    /\ UNCHANGED <<solutions, result, itVars>>
    /\ UNCHANGED mrVars
    /\ UNCHANGED svVars

MrIdle ==
    /\ plans_data = <<>>
    /\ trip_days = 0
    /\ total_data_mb = 0
    /\ hassle_penalty = 0
    /\ combo_i = 1
    /\ counter = 0
    /\ result = NoResult
    /\ k = 0
    /\ display_cost = 0
    /\ ranking_cost = 0
    /\ data = 0
    /\ dur = 0
    /\ info = <<>>
    /\ provider_plan_count = NoCounts
    /\ provider_promo_used = {}
    /\ total_activations = 0
    /\ total_topups = 0
    /\ total_accounts = 0

InitIT ==
    /\ \/ \E n \in 0..MaxRows : \E rows \in [1..n -> ItRows] :
              search_space = FinalSpace(rows)
       \/ search_space = FinalSpace(FourProviderRows)
    /\ cand_i = 1
    /\ cnt = 0
    /\ res = Invalid
    /\ plans = <<>>
    /\ plan_i = 0
    /\ total_price = 0
    /\ provider_seen_count = NoSeen
    /\ unique_providers = {}
    /\ solutions = <<>>
    /\ printed = <<>>
    /\ pc = "it_call"
    /\ MrIdle
    /\ SvIdle

NextIT ==
    \/ ItTimeline
    \/ ItCostStep
    \/ ItReturn
    \/ ItCollect
    \/ ItSort
    \/ ItPrint

SpecIT == InitIT /\ [][NextIT]_vars

Init == InitMR \/ InitIT

Next == NextMR \/ NextIT

Spec == Init /\ [][Next]_vars

-----------------------------------------------------------------------------
(* IT solve_segment, statement by statement                                *)
(*                                                                         *)
(* check_timeline_validity run on its own on the working copies of one     *)
(* candidate. The recursion is kept as a stack of frames; a frame holds    *)
(* the locals of one call that is inside or past its greedy loop.          *)

\* Bound of the explored inputs
MaxSolvePlans == 3        \* plans of the candidate

\* A second itinerary of three legs with the same daily usage rate as ITINERARY
\* (4000 MB in 4 days), so the working copies keep their effective data and days.
Itinerary3 ==
    << [slug |-> "A", days |-> 2, mb |-> 2000],
       [slug |-> "B", days |-> 1, mb |-> 1000],
       [slug |-> "C", days |-> 1, mb |-> 1000] >>

\* the segments list built by evaluate_itinerary for an itinerary
SegmentsOf(itin) ==
    [i \in 1..Len(itin) |->
        LET start == SumSeq([j \in 1..(i - 1) |-> itin[j].days])
        IN  [slug |-> itin[i].slug,
             start |-> start * TimeScale,
             end |-> (start + itin[i].days) * TimeScale,
             mb_needed |-> itin[i].mb * DataScale]]

\* <<coverage, data_mb, validity_days, data_cap_per>>
SolveShapes ==
    { <<{"A", "B", "C"}, 4000, 4, "total">>,
      <<{"A", "C"}, 4000, 4, "total">>,
      <<{"B", "C"}, 3000, 3, "total">>,
      <<{"A", "B", "C"}, 2500, 4, "total">>,
      <<{"A", "B"}, 2000, 2, "total">>,
      <<{"A", "B", "C"}, 2000, 4, "day">>,
      <<{"Z"}, 4000, 4, "total">>,
      <<{"A"}, 1000, 2, "total">>,
      <<{"B"}, 2000, 1, "total">>,
      <<{"C"}, 1000, 1, "total">> }

\* the plans a candidate is drawn from; price and provider play no part in the solver
SolveRows ==
    { [provider_id |-> "P2",
       plan_name |-> sh,
       scope |-> "local",
       coverage |-> sh[1],
       data_mb |-> sh[2],
       validity_days |-> sh[3],
       data_cap_per |-> sh[4],
       new_user_only |-> FALSE,
       usd_price |-> 1000,
       usd_promo_price |-> 1000,
       provider_promo_type |-> ProviderPromoType("P2")]
      : sh \in SolveShapes }

NoAlloc(nplans, nsegs) == [i \in 1..nplans |-> [s \in 1..nsegs |-> 0]]

\* the frame on top of the stack: the call whose statements are being executed
Top == stack[Len(stack)]

Pop(st) == SubSeq(st, 1, Len(st) - 1)

\* half of what could be taken is taken
Amount_HalfTaken(possible, left_to_fill) == Min(possible, left_to_fill) \div 2

\* amount = min(possible, left_to_fill)
Amount(possible, left_to_fill) == Min(possible, left_to_fill)

\* the amount taken is counted twice against what is left to fill
LeftAfter_CountedTwice(left_to_fill, amount) == left_to_fill - 2 * amount

\* left_to_fill -= amount
LeftAfter(left_to_fill, amount) == left_to_fill - amount

\* the recursive call made on the same segment again
NextSeg_SameLeg(seg_idx) == seg_idx

\* solve_segment(seg_idx + 1, segments, plans)
NextSeg(seg_idx) == seg_idx + 1

\* rollback that leaves "_start_time" in place
Undo_KeepsActivation(ps, op) ==
    IF op.key = "_start_time"
    THEN ps
    ELSE [ps EXCEPT ![op.p].remaining_mb = @ + op.val]

\* "_start_time" set to the start of every segment the plan is used on
StartTimeAfter_Overwrites(p, seg) == seg.start

\* if "_start_time" not in p: p["_start_time"] = seg["start"]
StartTimeAfter(p, seg) ==
    IF p.start_time = NotStarted THEN seg.start ELSE p.start_time

\* two purchases of one catalog row: the same fields apart from the state
SameCatalogPlan(a, b) ==
    /\ a.provider_id = b.provider_id
    /\ a.coverage = b.coverage
    /\ a.data_mb = b.data_mb
    /\ a.validity_days = b.validity_days
    /\ a.daily_cap = b.daily_cap
    /\ a.new_user_only = b.new_user_only
    /\ a.usd_price = b.usd_price
    /\ a.usd_promo_price = b.usd_promo_price

\* the working copies would be one object if the catalog dict were appended
\* as it is
Occurrences_Shared(ps, i) ==
    {j \in 1..Len(ps) : SameCatalogPlan(ps[j], ps[i])}

\* the positions of the working list that hold the object ps[i]:
\* "pc = p.copy()" gives every occurrence a dict of its own
Occurrences(ps, i) ==
    {i}

\* a write to the object at position i, seen at every position holding it
WriteThrough(ps, i, obj) ==
    [j \in 1..Len(ps) |-> IF j \in Occurrences(ps, i) THEN obj ELSE ps[j]]

\* one entry of consumed_ops undone
Undo(ps, op) ==
    IF op.key = "_start_time"
    THEN WriteThrough(ps, op.p, [ps[op.p] EXCEPT !.start_time = NotStarted])
    ELSE WriteThrough(ps, op.p, [ps[op.p] EXCEPT !.remaining_mb = @ + op.val])

\* rollback(ops): for p, key, val in reversed(ops)
RECURSIVE Rollback(_, _)
Rollback(ps, ops) ==
    IF ops = <<>> THEN ps
    ELSE Rollback(Undo(ps, ops[Len(ops)]), Pop(ops))

\* history: what leg s was given is taken back with the rollback of its call
ClearLeg(al, s) == [i \in 1..Len(al) |-> [al[i] EXCEPT ![s] = 0]]

\* a call of solve_segment from its first statement to the sort of plan_contribs
SvEnter ==
    /\ pc = "sv_enter"
    /\ IF next_idx > Len(segs)
       THEN /\ ret' = TRUE
            /\ pc' = "sv_return"
            /\ UNCHANGED <<stack, attempts>>
       ELSE LET seg == segs[next_idx]
                possible == [i \in 1..Len(plans) |-> MaxContribution(plans[i], seg)]
                listed == SelectSeq([i \in 1..Len(plans) |-> i],
                                    LAMBDA i : possible[i] # None)
                total == SumSeq([j \in 1..Len(listed) |-> possible[listed[j]]])
                Less(a, b) == ContribLess(plans, a, b)
            IN  /\ attempts' = Append(attempts, next_idx)
                /\ IF total < seg.mb_needed
                   THEN /\ ret' = FALSE
                        /\ pc' = "sv_return"
                        /\ UNCHANGED stack
                   ELSE /\ stack' = Append(stack,
                                [seg_idx |-> next_idx,
                                 order |-> StableSort(listed, Less),
                                 possible |-> possible,
                                 left_to_fill |-> seg.mb_needed,
                                 consumed_ops |-> <<>>,
                                 before |-> plans])
                        /\ pc' = "sv_loop"
                        /\ UNCHANGED ret
    /\ UNCHANGED <<plans, itinerary, segs, next_idx, plans0, alloc>>
    /\ UNCHANGED <<solutions, result, printed, search_space, cand_i, cnt, res,
                   plan_i, total_price, provider_seen_count, unique_providers>>
    /\ UNCHANGED mrVars

\* one iteration of "for p, possible in plan_contribs"
SvFillStep ==
    /\ pc = "sv_loop"
    /\ Top.order # <<>>
    /\ Top.left_to_fill > 0
    /\ LET seg == segs[Top.seg_idx]
           i == Head(Top.order)
           amount == Amount(Top.possible[i], Top.left_to_fill)
           start_op == IF plans[i].start_time = NotStarted
                       THEN << [key |-> "_start_time", p |-> i, val |-> None] >>
                       ELSE <<>>
           consume_op == IF ~DailyCapped(plans[i])
                         THEN << [key |-> "remaining_mb", p |-> i, val |-> amount] >>
                         ELSE <<>>
           started == [plans[i] EXCEPT !.start_time = StartTimeAfter(plans[i], seg)]
       IN  /\ plans' = IF ~DailyCapped(plans[i])
                       THEN WriteThrough(plans, i,
                                [started EXCEPT !.remaining_mb = @ - amount])
                       ELSE WriteThrough(plans, i, started)
           /\ stack' = [stack EXCEPT
                            ![Len(stack)].order = Tail(@),
                            ![Len(stack)].left_to_fill = LeftAfter(@, amount),
                            ![Len(stack)].consumed_ops = @ \o start_op \o consume_op]
           /\ alloc' = [alloc EXCEPT ![i][Top.seg_idx] = @ + amount]
    /\ UNCHANGED <<pc, itinerary, segs, next_idx, ret, plans0, attempts>>
    /\ UNCHANGED <<solutions, result, printed, search_space, cand_i, cnt, res,
                   plan_i, total_price, provider_seen_count, unique_providers>>
    /\ UNCHANGED mrVars

\* the end of the loop: "if left_to_fill > 1", then the call for the next segment
SvFillEnd ==
    /\ pc = "sv_loop"
    /\ (Top.order = <<>> \/ Top.left_to_fill <= 0)
    /\ IF Top.left_to_fill > 1 * DataScale
       THEN /\ plans' = Rollback(plans, Top.consumed_ops)
            /\ alloc' = ClearLeg(alloc, Top.seg_idx)
            /\ stack' = Pop(stack)
            /\ ret' = FALSE
            /\ pc' = "sv_return"
            /\ UNCHANGED next_idx
       ELSE /\ next_idx' = NextSeg(Top.seg_idx)
            /\ pc' = "sv_enter"
            /\ UNCHANGED <<plans, alloc, stack, ret>>
    /\ UNCHANGED <<itinerary, segs, plans0, attempts>>
    /\ UNCHANGED <<solutions, result, printed, search_space, cand_i, cnt, res,
                   plan_i, total_price, provider_seen_count, unique_providers>>
    /\ UNCHANGED mrVars

\* a call has returned: "if solve_segment(seg_idx + 1, ...): return True / else:
\* rollback(consumed_ops); return False" in its caller, or the end of
\* check_timeline_validity
SvReturn ==
    /\ pc = "sv_return"
    /\ IF stack = <<>>
       THEN /\ pc' = "sv_done"
            /\ UNCHANGED <<plans, alloc, stack>>
       ELSE /\ stack' = Pop(stack)
            /\ IF ret
               THEN UNCHANGED <<plans, alloc>>
               ELSE /\ plans' = Rollback(plans, Top.consumed_ops)
                    /\ alloc' = ClearLeg(alloc, Top.seg_idx)
            /\ UNCHANGED pc
    /\ UNCHANGED <<itinerary, segs, next_idx, ret, plans0, attempts>>
    /\ UNCHANGED <<solutions, result, printed, search_space, cand_i, cnt, res,
                   plan_i, total_price, provider_seen_count, unique_providers>>
    /\ UNCHANGED mrVars

\* check_timeline_validity(segments, plans) is about to call solve_segment(0, ...)
InitSolve ==
    /\ itinerary \in {ITINERARY, Itinerary3}
    /\ segs = SegmentsOf(itinerary)
    /\ \E n \in 1..MaxSolvePlans : \E combo \in [1..n -> SolveRows] :
           plans = [i \in 1..n |-> WorkingCopy(combo[i], i - 1)]
    /\ plans0 = plans
    /\ stack = <<>>
    /\ next_idx = 1
    /\ ret = FALSE
    /\ attempts = <<>>
    /\ alloc = NoAlloc(Len(plans), Len(segs))
    /\ pc = "sv_enter"
    /\ search_space = <<>>
    /\ cand_i = 1
    /\ cnt = 0
    /\ res = Invalid
    /\ plan_i = 0
    /\ total_price = 0
    /\ provider_seen_count = NoSeen
    /\ unique_providers = {}
    /\ solutions = <<>>
    /\ printed = <<>>
    /\ MrIdle

NextSolve ==
    \/ SvEnter
    \/ SvFillStep
    \/ SvFillEnd
    \/ SvReturn

SpecSolve == InitSolve /\ [][NextSolve]_vars

\* The statement-by-statement run ends as the operator SolveSegment says.
SolveAgrees ==
    (pc = "sv_done" /\ segs = segments) =>
        <<ret, plans>> = check_timeline_validity(plans0)

-----------------------------------------------------------------------------
(* IT evaluate_itinerary on itineraries of any structure                   *)
(*                                                                         *)
(* ITINERARY is a module-level list that nothing validates. One call of    *)
(* evaluate_itinerary is followed from its first statement through the     *)
(* solver, on well-formed and on malformed itineraries. All of them have   *)
(* the daily usage rate of ITINERARY, so the units of time and data stay.  *)

\* a leg of -1 day: leg B is [2, 1) and leg C starts before leg A has ended
NonMonotonicItinerary ==
    << [slug |-> "A", days |-> 2, mb |-> 1000],
       [slug |-> "B", days |-> 0 - 1, mb |-> 0],
       [slug |-> "C", days |-> 2, mb |-> 2000] >>

Itineraries == {<<>>, ITINERARY, Itinerary3, NonMonotonicItinerary}

\* Bound of the explored inputs
MaxItinPlans == 2         \* plans of the candidate

\* plans without capacity or validity: <<coverage, data_mb, validity_days, data_cap_per>>
DegenerateShapes ==
    { <<{"A", "B", "C"}, 0, 4, "total">>,
      <<{"A", "B", "C"}, 0 - 1000, 4, "total">>,
      <<{"A", "B", "C"}, 4000, 0, "total">>,
      <<{"A", "B", "C"}, 4000, 0 - 2, "total">>,
      <<{"A", "B", "C"}, 0, 4, "day">> }

\* the plans a candidate is drawn from: those of SolveRows and the degenerate ones
ItinRows ==
    SolveRows \cup
    { [provider_id |-> "P2",
       plan_name |-> sh,
       scope |-> "local",
       coverage |-> sh[1],
       data_mb |-> sh[2],
       validity_days |-> sh[3],
       data_cap_per |-> sh[4],
       new_user_only |-> FALSE,
       usd_price |-> 1000,
       usd_promo_price |-> 1000,
       provider_promo_type |-> ProviderPromoType("P2")]
      : sh \in DegenerateShapes }

\* TOTAL_DURATION = sum(step["days"] for step in ITINERARY)
TotalDays(itin) == SumSeq([i \in 1..Len(itin) |-> itin[i].days])

\* evaluate_itinerary up to the call of check_timeline_validity:
\* daily_usage_rate = total_mb_needed / TOTAL_DURATION raises ZeroDivisionError
\* when TOTAL_DURATION is 0
ItinEvaluate ==
    /\ pc = "ev_call"
    /\ IF TotalDays(itinerary) = 0
       THEN /\ pc' = "raised"
            /\ UNCHANGED <<plans, segs, alloc>>
       ELSE /\ plans' = [i \in 1..Len(plans0) |-> WorkingCopy(plans0[i], i - 1)]
            /\ segs' = SegmentsOf(itinerary)
            /\ alloc' = NoAlloc(Len(plans0), Len(itinerary))
            /\ pc' = "sv_enter"
    /\ UNCHANGED <<itinerary, stack, next_idx, ret, plans0, attempts>>
    /\ UNCHANGED <<solutions, result, printed, search_space, cand_i, cnt, res,
                   plan_i, total_price, provider_seen_count, unique_providers>>
    /\ UNCHANGED mrVars

\* main is about to call evaluate_itinerary on a candidate
InitItin ==
    /\ itinerary \in Itineraries
    /\ \E n \in 1..MaxItinPlans : plans0 \in [1..n -> ItinRows]
    /\ plans = <<>>
    /\ segs = <<>>
    /\ stack = <<>>
    /\ next_idx = 1
    /\ ret = FALSE
    /\ attempts = <<>>
    /\ alloc = <<>>
    /\ pc = "ev_call"
    /\ search_space = <<>>
    /\ cand_i = 1
    /\ cnt = 0
    /\ res = Invalid
    /\ plan_i = 0
    /\ total_price = 0
    /\ provider_seen_count = NoSeen
    /\ unique_providers = {}
    /\ solutions = <<>>
    /\ printed = <<>>
    /\ MrIdle

NextItin ==
    \/ ItinEvaluate
    \/ SvEnter
    \/ SvFillStep
    \/ SvFillEnd
    \/ SvReturn

SpecItin == InitItin /\ [][NextItin]_vars

-----------------------------------------------------------------------------
(* Properties *)

\* the purchases of the current candidate that evaluate_combination has processed
PlanAt(i) == plans_data[combo_indices[i]]
QtyAt(i) == qty_pattern[i]

OfferedPromo(p) == IsNumber(p.usd_promo_price) /\ p.usd_promo_price < p.usd_price

Returned == pc = "collect" /\ result # NoResult
Rejected == pc = "collect" /\ result = NoResult

\* the results held in solutions: heap tuples while searching, dicts once sorted
Kept == IF pc \in {"print", "done"}
        THEN {solutions[i] : i \in 1..Len(solutions)}
        ELSE IF pc \in {"loop", "collect"}
        THEN {solutions[i][3] : i \in 1..Len(solutions)}
        ELSE {}

\* C2: a purchase of quantity q of a plan with a promo below its regular price, from
\* a one-time provider that has not used its promo yet in this candidate, is billed
\* promo_price + regular_price * (q - 1), and the provider is then marked as having
\* used its promo.
C2_OneTimePromoQuantity ==
    \A i \in 1..k :
        LET p == PlanAt(i)
            q == QtyAt(i)
        IN  ( /\ p.provider_promo_type = "one-time"
              /\ OfferedPromo(p)
              /\ \A j \in 1..(i - 1) :
                     ~(PlanAt(j).provider_id = p.provider_id /\ info[j].used_promo) )
            => /\ info[i].total_price = p.usd_promo_price + p.usd_price * (q - 1)
               /\ p.provider_id \in provider_promo_used

\* regular 1000, promo 500, quantity 2 billed 1500
C2_Witness ==
    \E i \in 1..k :
        /\ PlanAt(i).provider_promo_type = "one-time"
        /\ OfferedPromo(PlanAt(i))
        /\ QtyAt(i) = 2
        /\ info[i].used_promo
        /\ info[i].total_price = 1500
        /\ PlanAt(i).provider_id \in provider_promo_used

\* C4 (multi-region part): for an unlimited-promo provider every purchase of a plan
\* with a promo below its regular price is billed promo_price * quantity, whatever
\* was purchased before it.
C4_MR ==
    \A i \in 1..k :
        LET p == PlanAt(i)
        IN  (p.provider_promo_type = "unlimited" /\ OfferedPromo(p))
            => info[i].total_price = p.usd_promo_price * QtyAt(i)

\* C3 (multi-region part): once a purchase of a one-time provider has used the promo,
\* every later purchase of that provider is billed regular_price * quantity.
C3_MR ==
    \A i \in 1..k : \A j \in (i + 1)..k :
        ( /\ PlanAt(i).provider_promo_type = "one-time"
          /\ PlanAt(j).provider_id = PlanAt(i).provider_id
          /\ info[i].used_promo )
        => /\ ~info[j].used_promo
           /\ info[j].total_price = PlanAt(j).usd_price * QtyAt(j)

\* what the account rule of the cost accountant gives for purchase i
RuleAccounts(i) ==
    IF PlanAt(i).can_top_up /\ ~PlanAt(i).new_user_only THEN 1 ELSE QtyAt(i)
RuleActivations(i) ==
    IF PlanAt(i).can_top_up /\ ~PlanAt(i).new_user_only THEN 1 ELSE QtyAt(i)
RuleTopups(i) ==
    IF PlanAt(i).can_top_up /\ ~PlanAt(i).new_user_only THEN QtyAt(i) - 1 ELSE 0

\* C5: every purchase (plan, q), free or paid, counts 1 account, 1 activation and
\* q - 1 top-ups when can_top_up and not new_user_only, and q accounts, q activations
\* and 0 top-ups otherwise.
C5_AccountRule ==
    /\ \A i \in 1..k : info[i].accounts = RuleAccounts(i)
    /\ total_accounts = SumSeq([i \in 1..k |-> RuleAccounts(i)])
    /\ total_activations = SumSeq([i \in 1..k |-> RuleActivations(i)])
    /\ total_topups = SumSeq([i \in 1..k |-> RuleTopups(i)])

\* a free plan that cannot be topped up, bought twice: 1 account, 2 activations
C5_FreePlanOneAccount ==
    \E i \in 1..k :
        /\ IsFreePlan(PlanAt(i))
        /\ ~PlanAt(i).can_top_up
        /\ ~PlanAt(i).new_user_only
        /\ QtyAt(i) = 2
        /\ info[i].accounts = 1
        /\ total_activations >= 2

\* C6: for every solution the evaluator produces, ranking_cost >= cash cost, with
\* equality exactly when the solution's total number of accounts is at most 1.
C6_RankingVsCash ==
    Returned =>
        /\ result.ranking_cost >= result.display_cost
        /\ (result.ranking_cost = result.display_cost) <=> (result.total_accounts <= 1)

\* two paid purchases of quantity 1 from two providers: 2 accounts, and a ranking
\* cost equal to the cash cost
C6_TwoAccountsNoPenalty ==
    /\ Returned
    /\ k = 2
    /\ PlanAt(1).provider_id # PlanAt(2).provider_id
    /\ PlanAt(1).usd_price > 0
    /\ PlanAt(2).usd_price > 0
    /\ QtyAt(1) = 1
    /\ QtyAt(2) = 1
    /\ result.total_accounts = 2
    /\ result.ranking_cost = result.display_cost

\* C8: a candidate whose activations exceed MAX_ESIM_ACTIVATIONS or whose top-ups
\* exceed MAX_TOPUPS is never returned as a solution and never held in solutions.
C8_CapsEnforced ==
    /\ Returned => /\ total_activations <= MAX_ESIM_ACTIVATIONS
                   /\ total_topups <= MAX_TOPUPS
    /\ \A s \in Kept : /\ s.total_activations <= MAX_ESIM_ACTIVATIONS
                       /\ s.total_topups <= MAX_TOPUPS

\* a candidate that meets the data and duration requirement, needs 4 activations
\* and is rejected
C8_Witness ==
    /\ Rejected
    /\ total_activations = 4
    /\ data >= total_data_mb
    /\ dur >= trip_days

\* C7 (multi-region part): the displayed cost of a returned solution is the sum of
\* the prices billed for its purchases; the hassle penalty is in ranking_cost only;
\* the printed COST of a solution is its displayed cost.
C7_MR ==
    /\ Returned =>
          /\ result.display_cost = SumSeq([i \in 1..k |-> info[i].total_price])
          /\ result.ranking_cost = result.display_cost
                + SumSeq([i \in 1..k |->
                      hassle_penalty * Max(0, info[i].accounts - 1)])
    /\ (pc = "done" /\ combo_data_list # <<>>) =>
          /\ Len(printed) = Len(solutions)
          /\ \A i \in 1..Len(printed) : printed[i] = solutions[i].display_cost

\* a returned solution whose ranking cost carries a hassle penalty
C7_MR_Witness == Returned /\ result.ranking_cost > result.display_cost
                     /\ result.display_cost > 0

\* the entries of a heap list, and the highest ranking cost among them
Entries(heap) == {heap[i] : i \in 1..Len(heap)}
WorstCost(heap) ==
    CHOOSE c \in {e[3].ranking_cost : e \in Entries(heap)} :
        \A e \in Entries(heap) : e[3].ranking_cost <= c

\* C9 (multi-region part): solutions never holds more than TOP_N_SOLUTIONS entries;
\* an accepted candidate is added while fewer are held; once TOP_N_SOLUTIONS are
\* held it replaces a worst entry if its ranking cost is strictly lower and is
\* otherwise not inserted; whatever is dropped costs at least as much as everything
\* kept, and the worst kept cost never rises.
C9_MR_Step ==
    /\ Len(solutions') <= TOP_N_SOLUTIONS
    /\ Rejected => solutions' = solutions
    /\ Returned =>
          LET new == <<-result.ranking_cost, counter + 1, result>>
              dropped == (Entries(solutions) \cup {new}) \ Entries(solutions')
          IN  /\ IF Len(solutions) < TOP_N_SOLUTIONS
                 THEN Entries(solutions') = Entries(solutions) \cup {new}
                 ELSE IF result.ranking_cost < WorstCost(solutions)
                      THEN /\ \E w \in Entries(solutions) :
                                 /\ w[3].ranking_cost = WorstCost(solutions)
                                 /\ Entries(solutions') =
                                        (Entries(solutions) \ {w}) \cup {new}
                           /\ WorstCost(solutions') <= WorstCost(solutions)
                      ELSE solutions' = solutions
              /\ \A d \in dropped : \A e \in Entries(solutions') :
                     d[3].ranking_cost >= e[3].ranking_cost

C9_MR == [][C9_MR_Step]_vars

\* TOP_N_SOLUTIONS are held and the new candidate ties the worst of them
C9_Witness_Tie ==
    /\ Returned
    /\ Len(solutions) = TOP_N_SOLUTIONS
    /\ result.ranking_cost = WorstCost(solutions)

\* TOP_N_SOLUTIONS are held and the new candidate is strictly cheaper than the worst
C9_Witness_Replace ==
    /\ Returned
    /\ Len(solutions) = TOP_N_SOLUTIONS
    /\ result.ranking_cost < WorstCost(solutions)

\* C10 (multi-region part): the returned list is in non-decreasing ranking_cost order.
C10_MR ==
    pc \in {"print", "done"} =>
        \A i \in 1..Len(solutions) : \A j \in i..Len(solutions) :
            solutions[i].ranking_cost <= solutions[j].ranking_cost

C10_MR_Witness ==
    /\ pc = "done"
    /\ Len(solutions) >= 3
    /\ solutions[1].ranking_cost < solutions[Len(solutions)].ranking_cost

-----------------------------------------------------------------------------
(* Properties of the itinerary optimizer, and of both optimizers *)

\* the purchases of the current candidate whose price evaluate_itinerary has set
Priced == IF pc = "it_cost" THEN 1..plan_i ELSE {}

ItValid == pc = "it_collect" /\ res.valid

\* the only two purchases of provider pid in the candidate are at positions i < j,
\* and exactly one of the two plans has a promo price below its regular price
TwoPurchasesOnePromo(ps, i, j, HasP(_)) ==
    /\ i < j
    /\ ps[i].provider_id = ps[j].provider_id
    /\ ps[i].provider_promo_type = "one-time"
    /\ \A m \in 1..Len(ps) : ps[m].provider_id = ps[i].provider_id => m \in {i, j}
    /\ HasP(ps[i]) # HasP(ps[j])

\* C1 (itinerary optimizer): when the only two purchases of a one-time provider in a
\* candidate are such that exactly one of the two plans has a promo price below its
\* regular price, the two are billed promo price of the promo plan + regular price
\* of the other plan, whichever comes first.
C1_IT ==
    \A i \in Priced : \A j \in Priced :
        TwoPurchasesOnePromo(plans, i, j, ItHasPromo)
        => plans[i].final_price + plans[j].final_price
             = IF ItHasPromo(plans[i])
               THEN plans[i].usd_promo_price + plans[j].usd_price
               ELSE plans[i].usd_price + plans[j].usd_promo_price

\* C1 (multi-region optimizer): the same with quantities: the promo plan is billed
\* promo + regular * (q - 1) and the other plan regular * q, in both orders.
C1_MR ==
    \A i \in 1..k : \A j \in 1..k :
        LET ps == [m \in 1..Len(combo_indices) |-> PlanAt(m)]
            Bill(m) == IF OfferedPromo(ps[m])
                       THEN ps[m].usd_promo_price + ps[m].usd_price * (QtyAt(m) - 1)
                       ELSE RegularPrice(ps[m]) * QtyAt(m)
        IN  TwoPurchasesOnePromo(ps, i, j, OfferedPromo)
            => info[i].total_price + info[j].total_price = Bill(i) + Bill(j)

\* the plan without promo comes first, the plan with promo second
C1_MR_Witness ==
    \E i \in 1..k : \E j \in 1..k :
        /\ TwoPurchasesOnePromo([m \in 1..Len(combo_indices) |-> PlanAt(m)],
                                i, j, OfferedPromo)
        /\ ~OfferedPromo(PlanAt(i))
        /\ info[j].used_promo

\* C3 (itinerary optimizer): once a purchase of a one-time provider is billed its
\* promo price, every later purchase of that provider is billed its regular price.
C3_IT ==
    \A i \in Priced : \A j \in Priced :
        ( /\ i < j
          /\ plans[i].provider_promo_type = "one-time"
          /\ plans[j].provider_id = plans[i].provider_id
          /\ plans[i].price_note = "PROMO" )
        => /\ plans[j].price_note = "REG"
           /\ plans[j].final_price = plans[j].usd_price

\* C3: within one candidate, at most one purchase of a one-time provider is billed
\* using the promo price; the purchases after it are billed regular_price * quantity
\* (both optimizers).
C3_PromoAtMostOnce == C3_MR /\ C3_IT

\* a later purchase of the provider that used its promo offers a promo too
C3_Witness ==
    \E i \in 1..k : \E j \in (i + 1)..k :
        /\ PlanAt(i).provider_promo_type = "one-time"
        /\ PlanAt(j).provider_id = PlanAt(i).provider_id
        /\ info[i].used_promo
        /\ OfferedPromo(PlanAt(j))
        /\ info[j].total_price = PlanAt(j).usd_price * QtyAt(j)

C3_IT_Witness ==
    \E i \in Priced : \E j \in Priced :
        /\ i < j
        /\ plans[i].provider_promo_type = "one-time"
        /\ plans[j].provider_id = plans[i].provider_id
        /\ plans[i].price_note = "PROMO"
        /\ ItHasPromo(plans[j])

\* C4 (itinerary optimizer): a purchase of a plan with a promo below its regular
\* price from an unlimited provider is billed the promo price.
C4_IT ==
    \A i \in Priced :
        (plans[i].provider_promo_type = "unlimited" /\ ItHasPromo(plans[i]))
        => /\ plans[i].final_price = plans[i].usd_promo_price
           /\ plans[i].price_note = "PROMO"

C4_IT_Witness ==
    \E i \in Priced : \E j \in Priced :
        /\ i < j
        /\ plans[i].provider_promo_type = "unlimited"
        /\ plans[j].provider_id = plans[i].provider_id
        /\ plans[i].price_note = "PROMO"
        /\ plans[j].price_note = "PROMO"

\* C7 (itinerary optimizer): display_cost is the sum of the billed prices, the
\* hassle cost is in ranking_cost only, and the COST line shows display_cost.
C7_IT ==
    /\ ItValid =>
          /\ res.display_cost = SumSeq([i \in 1..Len(plans) |-> plans[i].final_price])
          /\ res.ranking_cost = res.display_cost
                + (Len(plans) - 1) * IT_DEFAULT_HASSLE_PENALTY
    /\ pc = "it_done" =>
          /\ Len(printed) = Min(Len(solutions), IT_TOP_N_SOLUTIONS)
          /\ \A i \in 1..Len(printed) : printed[i] = solutions[i][3].display_cost

\* C7: the cash (display) cost of every returned solution is the sum of the prices
\* billed for its purchases, without any hassle penalty; the penalty is added to
\* ranking_cost only; the printed cost is the cash cost (both optimizers).
C7_CashCost == C7_MR /\ C7_IT

C7_IT_Witness ==
    /\ pc = "it_done"
    /\ \E i \in 1..Len(printed) :
           /\ printed[i] > 0
           /\ printed[i] < solutions[i][3].ranking_cost

\* C8 (itinerary optimizer): no solution held by the search has more activations
\* than MAX_ESIM_ACTIVATIONS or more top-ups than MAX_TOPUPS.
C8_IT ==
    pc \in {"it_call", "it_cost", "it_collect"} =>
        \A i \in 1..Len(solutions) :
            /\ solutions[i][3].activations <= MAX_ESIM_ACTIVATIONS
            /\ solutions[i][3].top_ups <= MAX_TOPUPS

\* C9 (itinerary optimizer): the search never holds more than TOP_N_SOLUTIONS
\* solutions.
C9_IT ==
    pc \in {"it_call", "it_cost", "it_collect", "it_print", "it_done"} =>
        Len(solutions) <= IT_TOP_N_SOLUTIONS

\* C10 (itinerary optimizer): the sorted list is in non-decreasing ranking_cost
\* order.
C10_IT ==
    pc \in {"it_print", "it_done"} =>
        \A i \in 1..Len(solutions) : \A j \in i..Len(solutions) :
            solutions[i][3].ranking_cost <= solutions[j][3].ranking_cost

\* C10: the list of solutions returned by the search is sorted in non-decreasing
\* order of ranking_cost (both optimizers).
C10_SortedAscending == C10_MR /\ C10_IT

C10_IT_Witness ==
    /\ pc = "it_done"
    /\ Len(solutions) >= 3
    /\ solutions[1][1] < solutions[Len(solutions)][1]

-----------------------------------------------------------------------------
(* Order of ties *)

\* the heap entries in increasing order of ranking cost, ties in insertion order
ByCostThenCounter(heap, Cost(_)) ==
    LET Less(a, b) == \/ Cost(a) < Cost(b)
                      \/ (Cost(a) = Cost(b) /\ a[2] < b[2])
    IN  StableSort(heap, Less)

\* C11 (itinerary optimizer): among the sorted solutions of equal ranking cost, the
\* one found earlier in the enumeration (lower cnt) is listed first.
C11_IT ==
    pc \in {"it_print", "it_done"} =>
        \A i \in 1..Len(solutions) : \A j \in (i + 1)..Len(solutions) :
            solutions[i][1] = solutions[j][1] => solutions[i][2] < solutions[j][2]

\* C11 (multi-region optimizer): the list returned by the sort holds the results of
\* the heap in increasing order of ranking cost, those of equal ranking cost in the
\* order in which they were found (increasing counter).
C11_MR_Step ==
    (pc = "loop" /\ pc' = "print") =>
        LET MrCost(e) == e[3].ranking_cost
            ordered == ByCostThenCounter(solutions, MrCost)
        IN  solutions' = [i \in 1..Len(ordered) |-> ordered[i][3]]

C11_MR == [][C11_MR_Step]_vars

-----------------------------------------------------------------------------
(* Properties of solve_segment *)

\* remaining capacity and activation of every plan
PlanState(ps) ==
    [i \in 1..Len(ps) |->
        [remaining_mb |-> ps[i].remaining_mb, start_time |-> ps[i].start_time]]

\* no plan is activated and each has its whole effective capacity
Untouched(ps) ==
    \A i \in 1..Len(ps) :
        /\ ps[i].start_time = NotStarted
        /\ ps[i].remaining_mb = ps[i].effective_mb

\* C12: when the attempt on a leg fails, at the leg itself or because a later leg
\* fails, every plan's remaining capacity and activation are what they were just
\* before that attempt began; and once check_timeline_validity has returned
\* infeasible every plan is un-activated with its initial effective capacity.
C12_Step ==
    /\ (pc = "sv_enter" /\ pc' = "sv_return" /\ ~ret') =>
           PlanState(plans') = PlanState(plans)
    /\ (pc = "sv_loop" /\ pc' = "sv_return") =>
           PlanState(plans') = PlanState(Top.before)
    /\ (pc = "sv_return" /\ stack # <<>> /\ ~ret) =>
           PlanState(plans') = PlanState(Top.before)
    /\ (pc' = "sv_done" /\ ~ret') => Untouched(plans')

C12_RollbackRestores == [][C12_Step]_vars

\* infeasible at the second or a later leg: the earlier legs had consumed data
C12_Witness ==
    /\ pc = "sv_done"
    /\ ~ret
    /\ Len(attempts) >= 2

\* data supplied by plan i over all legs
Supplied(i) == SumSeq(alloc[i])

\* ticks of leg s inside the validity window of plan p, 0 for a plan not activated
WindowOverlap(p, s) ==
    IF p.start_time = NotStarted THEN 0
    ELSE Max(0, Min(p.start_time + p.effective_days, segs[s].end)
                    - Max(p.start_time, segs[s].start))

\* min(data_mb, validity_days * R) in data units
EffectiveCapacity(p) ==
    Min(p.data_mb * DataScale, p.validity_days * TimeScale * TimeScale)

\* C13: in every state of an allocation a total-cap plan's remaining capacity lies
\* between 0 and its effective capacity min(data_mb, validity_days * R), the data
\* it supplied over all legs being the difference; a per-day-cap plan supplies to a
\* leg at most its daily cap times the days of the leg it is used on.
C13_CapacityRespected ==
    pc \in {"sv_enter", "sv_loop", "sv_return", "sv_done"} =>
        \A i \in 1..Len(plans) :
            IF plans[i].daily_cap = None
            THEN /\ 0 <= plans[i].remaining_mb
                 /\ plans[i].remaining_mb <= EffectiveCapacity(plans[i])
                 /\ Supplied(i) = EffectiveCapacity(plans[i]) - plans[i].remaining_mb
            ELSE \A s \in 1..Len(segs) :
                     alloc[i][s] <= plans[i].daily_cap
                                      * WindowOverlap(plans[i], s) * TOTAL_DURATION

\* a feasible allocation that used up a total-cap plan and drew on a per-day-cap plan
C13_Witness ==
    /\ pc = "sv_done"
    /\ ret
    /\ \E i \in 1..Len(plans) : plans[i].daily_cap = None /\ plans[i].remaining_mb = 0
    /\ \E i \in 1..Len(plans) : plans[i].daily_cap # None /\ Supplied(i) > 0

\* data supplied to leg s by all plans
LegSupplied(s) == SumSeq([i \in 1..Len(plans) |-> alloc[i][s]])

\* C14: whenever the timeline solver reports feasible, the data allocated to each
\* leg, summed over all plans, is at least the data the leg requires.
C14_FeasibleCoversLegs ==
    (pc = "sv_done" /\ ret) =>
        \A s \in 1..Len(segs) : LegSupplied(s) >= segs[s].mb_needed

\* feasible, with a leg that needed the data of two plans
C14_Witness ==
    /\ pc = "sv_done"
    /\ ret
    /\ \E s \in 1..Len(segs) : \E i, j \in 1..Len(plans) :
           i # j /\ alloc[i][s] > 0 /\ alloc[j][s] > 0

\* C15: within one call of check_timeline_validity the legs are attempted in
\* strictly increasing order from the first one, a leg only after the one before
\* it has been filled, and none twice: once a call has returned, no leg is
\* attempted again. (Leg n here is index n - 1 of the Python list.)
C15_Step ==
    /\ attempts' # attempts =>
           /\ attempts' = Append(attempts, Len(attempts) + 1)
           /\ Len(attempts) >= 1 =>
                  LegSupplied(Len(attempts)) >= segs[Len(attempts)].mb_needed
    /\ pc \in {"sv_return", "sv_done"} => attempts' = attempts

C15_LegsInOrder == [][C15_Step]_vars

\* the third leg fails after two legs were filled, and the failure reaches the caller
C15_Witness ==
    /\ pc = "sv_done"
    /\ ~ret
    /\ attempts = <<1, 2, 3>>

\* the territories of the itinerary
Territories == {segs[s].slug : s \in 1..Len(segs)}

\* C16: a plan is allocated data for a leg, or activated by a leg, only if the
\* leg's territory is in its coverage; a plan covering no territory of the
\* itinerary is never activated and never consumed.
C16_CoverageOnly ==
    pc \in {"sv_enter", "sv_loop", "sv_return", "sv_done"} =>
        \A i \in 1..Len(plans) :
            /\ \A s \in 1..Len(segs) :
                   alloc[i][s] > 0 => segs[s].slug \in plans[i].coverage
            /\ plans[i].start_time # NotStarted =>
                   \E s \in 1..Len(segs) : /\ segs[s].slug \in plans[i].coverage
                                           /\ plans[i].start_time = segs[s].start
            /\ plans[i].coverage \cap Territories = {} =>
                   /\ plans[i].start_time = NotStarted
                   /\ plans[i].remaining_mb = plans[i].effective_mb

\* a feasible allocation of a candidate holding a plan that covers no territory and
\* a plan that supplied data but does not cover every leg
C16_Witness ==
    /\ pc = "sv_done"
    /\ ret
    /\ \E i \in 1..Len(plans) : plans[i].coverage \cap Territories = {}
    /\ \E i \in 1..Len(plans) : /\ Supplied(i) > 0
                                /\ ~(Territories \subseteq plans[i].coverage)

\* the first leg plan i supplied data to, 0 when it supplied none
FirstLegSupplied(i) ==
    IF Supplied(i) = 0 THEN 0
    ELSE CHOOSE s \in 1..Len(segs) :
             /\ alloc[i][s] > 0
             /\ \A t \in 1..(s - 1) : alloc[i][t] = 0

\* the end of the trip, in ticks
TotalTicks == segs[Len(segs)].end

\* C17: in a feasible allocation every plan that supplied data is activated at the
\* start of the first leg it supplied data to, a time in [0, total_days); and a
\* leg never changes the activation time of a plan that is already activated.
C17_Step ==
    /\ (pc' = "sv_done" /\ ret') =>
           \A i \in 1..Len(plans') :
               Supplied(i)' > 0 =>
                   /\ plans'[i].start_time = segs'[FirstLegSupplied(i)'].start
                   /\ 0 <= plans'[i].start_time
                   /\ plans'[i].start_time < TotalTicks'
    /\ pc = "sv_loop" =>
           \A i \in 1..Len(plans) :
               plans[i].start_time # NotStarted =>
                   plans'[i].start_time = plans[i].start_time

C17_ActivationDay == [][C17_Step]_vars

\* feasible, with a plan activated at a later leg than the first and a plan that
\* supplied data to two legs
C17_Witness ==
    /\ pc = "sv_done"
    /\ ret
    /\ \E i \in 1..Len(plans) : FirstLegSupplied(i) > 1
    /\ \E i \in 1..Len(plans) : \E s, t \in 1..Len(segs) :
           s < t /\ alloc[i][s] > 0 /\ alloc[i][t] > 0

\* min(validity_days, data_mb / R) in ticks
EffectiveValidity(p) == Min(p.validity_days * TimeScale, p.data_mb * TOTAL_DURATION)

\* ticks of leg s inside [activation, activation + effective validity), the plan
\* taken as activated at the start of leg s when it is not activated yet
OverlapWith(p, s) ==
    LET starts_at == IF p.start_time = NotStarted THEN segs[s].start ELSE p.start_time
    IN  Max(0, Min(starts_at + EffectiveValidity(p), segs[s].end)
                   - Max(starts_at, segs[s].start))

\* C18: a plan supplies data to a leg only if its validity window, from its
\* activation over its effective validity, overlaps the leg on a positive length;
\* what a per-day-cap plan can supply to the leg is daily_cap * overlap_days, and
\* what a total-cap plan can supply is at most its remaining capacity.
C18_OverlapAndAmounts ==
    /\ pc \in {"sv_enter", "sv_loop", "sv_return", "sv_done"} =>
           \A i \in 1..Len(plans) : \A s \in 1..Len(segs) :
               alloc[i][s] > 0 => OverlapWith(plans[i], s) > 0
    /\ pc = "sv_loop" =>
           \A i \in 1..Len(plans) :
               LET p == Top.before[i]
                   s == Top.seg_idx
               IN  /\ Top.possible[i] # None => OverlapWith(p, s) > 0
                   /\ (Top.possible[i] # None /\ p.daily_cap # None) =>
                          Top.possible[i] = p.daily_cap * OverlapWith(p, s) * TOTAL_DURATION
                   /\ (Top.possible[i] # None /\ p.daily_cap = None) =>
                          /\ Top.possible[i] <= p.remaining_mb
                          /\ alloc[i][s] <= p.remaining_mb

\* a leg being filled from a per-day-cap plan while an activated total-cap plan
\* that covers the leg and has data left is past its window
C18_Witness ==
    /\ pc = "sv_loop"
    /\ \E i \in 1..Len(plans) :
           /\ plans[i].daily_cap = None
           /\ plans[i].start_time # NotStarted
           /\ plans[i].remaining_mb > 0
           /\ segs[Top.seg_idx].slug \in plans[i].coverage
           /\ Top.possible[i] = None
    /\ \E j \in 1..Len(plans) :
           /\ plans[j].daily_cap # None
           /\ Top.possible[j] # None
           /\ alloc[j][Top.seg_idx] > 0

\* expiry minus the start of leg s for plan p, with the plan's validity_days
RemainingValidityRaw(p, s) ==
    (IF p.start_time = NotStarted THEN segs[s].start ELSE p.start_time)
        + p.validity_days * TimeScale - segs[s].start

\* the same with the plan's effective validity
RemainingValidityEffective(p, s) ==
    (IF p.start_time = NotStarted THEN segs[s].start ELSE p.start_time)
        + EffectiveValidity(p) - segs[s].start

IsActivated(p) == p.start_time # NotStarted

\* C19: when a leg is filled, every already-activated candidate is consumed before
\* any not-yet-activated one, and among candidates of equal activation status the
\* one with the shorter remaining validity (expiry minus the leg's start) comes
\* first. A pair counts as in order when it is so for either reading of expiry.
C19_ConsumptionOrder ==
    pc = "sv_loop" =>
        \A j \in 1..Len(Top.order) : \A m \in (j + 1)..Len(Top.order) :
            LET a == Top.before[Top.order[j]]
                b == Top.before[Top.order[m]]
                s == Top.seg_idx
            IN  /\ IsActivated(b) => IsActivated(a)
                /\ (IsActivated(a) <=> IsActivated(b)) =>
                       \/ RemainingValidityRaw(a, s) <= RemainingValidityRaw(b, s)
                       \/ RemainingValidityEffective(a, s)
                              <= RemainingValidityEffective(b, s)

\* the first half of C19 alone: activated candidates come before the others
C19_ActivatedFirst ==
    pc = "sv_loop" =>
        \A j \in 1..Len(Top.order) : \A m \in (j + 1)..Len(Top.order) :
            IsActivated(Top.before[Top.order[m]]) => IsActivated(Top.before[Top.order[j]])

-----------------------------------------------------------------------------
(* Evaluation of a candidate as a function of the candidate alone *)

\* total price of the working copies ps from position i on, seen being the
\* provider_seen_count reached before position i
RECURSIVE ItPriceFrom(_, _, _)
ItPriceFrom(ps, i, seen) ==
    IF i > Len(ps) THEN 0
    ELSE (IF ApplyPromo(ps[i], seen) THEN ps[i].usd_promo_price ELSE ps[i].usd_price)
             + ItPriceFrom(ps, i + 1, SeenCountAfter(ps[i], seen))

\* evaluate_itinerary(combo) computed from the catalog records of the candidate
ItEvaluate(combo) ==
    IF NewUserRejected(combo) THEN Invalid
    ELSE LET solved == check_timeline_validity(
                           [i \in 1..Len(combo) |-> WorkingCopy(combo[i], i - 1)])
             price == ItPriceFrom(solved[2], 1, NoSeen)
             providers == {combo[i].provider_id : i \in 1..Len(combo)}
         IN  IF ~solved[1] THEN Invalid
             ELSE [valid |-> TRUE,
                   ranking_cost |-> price
                       + ItHassleCost(Len(combo), IT_DEFAULT_HASSLE_PENALTY),
                   display_cost |-> price,
                   activations |-> Cardinality(providers),
                   top_ups |-> Len(combo) - Cardinality(providers)]

\* the locals of evaluate_combination after the purchases from position j on,
\* acc being their values before position j
RECURSIVE MrFrom(_, _, _, _)
MrFrom(indices, qtys, j, acc) ==
    IF j > Len(indices) THEN acc
    ELSE LET p == plans_data[indices[j]]
             qty == qtys[j]
         IN  MrFrom(indices, qtys, j + 1,
                [display_cost |-> DisplayCostAfter(acc.display_cost, p, qty,
                                                   acc.promo_used, hassle_penalty),
                 ranking_cost |-> RankingCostAfter(acc.ranking_cost, p, qty,
                                                   acc.promo_used, hassle_penalty),
                 promo_used |-> PromoUsedAfter(p, acc.promo_used),
                 total_activations |-> acc.total_activations + ActivationsAdded(p, qty),
                 total_topups |-> acc.total_topups + TopupsForPlan(p, qty),
                 total_accounts |-> acc.total_accounts + AccountsNeeded(p, qty),
                 data |-> acc.data + p.data_mb * qty,
                 dur |-> Max(acc.dur, p.validity_days * qty)])

\* evaluate_combination(combo_data) computed from plans_data and the candidate
MrEvaluate(indices, qtys) ==
    LET end == MrFrom(indices, qtys, 1,
                   [display_cost |-> 0, ranking_cost |-> 0, promo_used |-> {},
                    total_activations |-> 0, total_topups |-> 0,
                    total_accounts |-> 0, data |-> 0, dur |-> 0])
    IN  IF /\ WithinLimits(end.total_activations, end.total_topups)
           /\ MeetsRequirement(end.data, end.dur, trip_days, total_data_mb)
        THEN [display_cost |-> end.display_cost,
              ranking_cost |-> end.ranking_cost,
              total_activations |-> end.total_activations,
              total_topups |-> end.total_topups,
              total_accounts |-> end.total_accounts]
        ELSE NoResult

\* C20: evaluating a candidate never modifies the plan records of the search space
\* (plans_data, search_space), and the result of an evaluation is the one computed
\* from the candidate's catalog records alone, whatever was evaluated before it.
C20_Step ==
    /\ search_space' = search_space
    /\ plans_data' = plans_data
    /\ (pc = "it_cost" /\ pc' = "it_collect") => res' = ItEvaluate(combo_plans)
    /\ (pc = "it_call" /\ pc' = "it_collect") => res' = ItEvaluate(combo_plans)
    /\ (pc = "loop" /\ pc' = "collect") => result' = MrEvaluate(combo_indices, qty_pattern)

C20_CatalogUntouched == [][C20_Step]_vars

\* a feasible evaluation of the itinerary optimizer, not the first of the run,
\* whose working copies were consumed
C20_IT_Witness ==
    /\ pc = "it_collect"
    /\ cand_i >= 2
    /\ res.valid
    /\ \E i \in 1..Len(plans) : plans[i].remaining_mb < plans[i].effective_mb

\* an accepted evaluation of the multi-region optimizer, not the first of the run,
\* in which a promo price was billed
C20_Witness ==
    /\ pc = "collect"
    /\ combo_i >= 2
    /\ result # NoResult
    /\ result.display_cost < SumSeq([j \in 1..Len(combo_indices) |->
           plans_data[combo_indices[j]].usd_price * qty_pattern[j]])

-----------------------------------------------------------------------------
(* The enumeration of candidates *)

\* the binomial coefficient C(n, r)
RECURSIVE Choose(_, _)
Choose(n, r) ==
    IF r = 0 THEN 1
    ELSE IF n = 0 THEN 0
    ELSE Choose(n - 1, r - 1) + Choose(n - 1, r)

\* sum over r = 1..max_size of C(n + r - 1, r)
MultisetCount(n, max_size) ==
    SumSeq([r \in 1..max_size |-> Choose(n + r - 1, r)])

\* the multisets of 1..max_size plans out of n, as numbers of copies per plan
AllMultisets(n, max_size) ==
    { f \in [1..n -> 0..max_size] :
        LET size == SumSeq([x \in 1..n |-> f[x]])
        IN  1 <= size /\ size <= max_size }

\* the multiset a candidate stands for: plan indices[j] taken qtys[j] times
MultisetOf(indices, qtys, n) ==
    [x \in 1..n |->
        SumSeq([j \in 1..Len(indices) |-> IF indices[j] = x THEN qtys[j] ELSE 0])]

\* the multisets of the candidates evaluated by the itinerary optimizer so far
ItEvaluated ==
    [c \in 1..(cand_i - 1) |->
        MultisetOf(enumeration[c], [j \in 1..Len(enumeration[c]) |-> 1],
                   Len(search_space))]

\* the multisets of the candidates evaluated by the multi-region optimizer so far
MrEvaluated ==
    [c \in 1..(combo_i - 1) |->
        MultisetOf(combo_data_list[c][1], combo_data_list[c][2], Len(plans_data))]

\* evaluated is a list of every multiset of all_multisets, each exactly once
EachExactlyOnce(evaluated, all_multisets) ==
    /\ \A m \in all_multisets : \E c \in 1..Len(evaluated) : evaluated[c] = m
    /\ \A c \in 1..Len(evaluated) : evaluated[c] \in all_multisets
    /\ \A c, d \in 1..Len(evaluated) : evaluated[c] = evaluated[d] => c = d

\* C21 (itinerary optimizer): when the search has ended, every multiset of
\* 1..MAX_COMBO_SIZE search-space plans has been evaluated exactly once, and the
\* number of evaluations is the sum over r of C(n + r - 1, r).
C21_IT ==
    pc \in {"it_print", "it_done"} =>
        /\ EachExactlyOnce(ItEvaluated,
                           AllMultisets(Len(search_space), IT_MAX_COMBO_SIZE))
        /\ cand_i - 1 = MultisetCount(Len(search_space), IT_MAX_COMBO_SIZE)

\* C21 (multi-region optimizer): when the search has ended, every multiset of
\* 1..MAX_COMBO_SIZE search-space plans has been evaluated exactly once, and the
\* number of evaluations is the sum over r of C(n + r - 1, r).
C21_MR ==
    pc \in {"print", "done"} =>
        /\ EachExactlyOnce(MrEvaluated, AllMultisets(Len(plans_data), MAX_COMBO_SIZE))
        /\ combo_i - 1 = MultisetCount(Len(plans_data), MAX_COMBO_SIZE)

\* the search of the itinerary optimizer has ended on a search space of two or
\* more plans
C21_IT_Witness ==
    /\ pc = "it_print"
    /\ Len(search_space) >= 2

\* C22: with an empty search space the search evaluates no candidate and can only
\* go on to its end, where the solution list and the printout are empty.
C22_EmptySearchSpace ==
    /\ (pc \in {"loop", "collect", "print", "done"} /\ plans_data = <<>>) =>
           /\ pc # "collect"
           /\ combo_i = 1
           /\ counter = 0
           /\ result = NoResult
           /\ solutions = <<>>
           /\ printed = <<>>
           /\ pc = "loop" => ENABLED MainSort
           /\ pc = "print" => ENABLED MainPrint
    /\ (pc \in {"it_call", "it_cost", "it_collect", "it_print", "it_done"}
            /\ search_space = <<>>) =>
           /\ pc \notin {"it_cost", "it_collect"}
           /\ cand_i = 1
           /\ cnt = 0
           /\ solutions = <<>>
           /\ printed = <<>>
           /\ pc = "it_call" => ENABLED ItSort
           /\ pc = "it_print" => ENABLED ItPrint

\* the multi-region optimizer has finished on an empty search space
C22_Witness ==
    /\ pc = "done"
    /\ plans_data = <<>>

\* the itinerary optimizer has finished on an empty search space
C22_IT_Witness ==
    /\ pc = "it_done"
    /\ search_space = <<>>

\* C23: a candidate that is infeasible or over the caps is discarded on its own:
\* the retained solutions and the count of accepted candidates stay as they are
\* and the search goes on with the next candidate; it ends only when every
\* candidate has been evaluated, and an accepted candidate is retained while there
\* is room, whatever was discarded before it.
C23_Step ==
    /\ (pc = "collect" /\ result = NoResult) =>
           /\ solutions' = solutions
           /\ counter' = counter
           /\ combo_i' = combo_i + 1
           /\ pc' = "loop"
    /\ (pc = "it_collect" /\ ~res.valid) =>
           /\ solutions' = solutions
           /\ cnt' = cnt
           /\ cand_i' = cand_i + 1
           /\ pc' = "it_call"
    /\ (pc = "collect" /\ result # NoResult /\ Len(solutions) < TOP_N_SOLUTIONS) =>
           \E e \in 1..Len(solutions') :
               solutions'[e][2] = counter + 1 /\ solutions'[e][3] = result
    /\ (pc = "it_collect" /\ res.valid) =>
           \E e \in 1..Len(solutions') :
               solutions'[e][2] = cnt + 1 /\ solutions'[e][3] = res
    /\ pc' = "print" => combo_i' = Len(combo_data_list) + 1
    /\ pc' = "it_print" => cand_i' = Len(enumeration) + 1

C23_MR_Witness ==
    /\ pc = "collect"
    /\ result # NoResult
    /\ counter < combo_i - 1

-----------------------------------------------------------------------------
(* Properties of evaluate_itinerary on malformed input *)

\* zero legs, or a leg whose day range runs backwards
StructurallyInvalid(itin) ==
    \/ Len(itin) = 0
    \/ \E i \in 1..Len(itin) : itin[i].days < 0

\* C24: with a structurally invalid itinerary (zero legs, or leg day ranges that
\* are not monotonic) the run fails before the solver works on any candidate, and
\* no candidate is reported feasible.
C24_InvalidItineraryFails ==
    (pc \in {"ev_call", "raised", "sv_enter", "sv_loop", "sv_return", "sv_done"}
         /\ StructurallyInvalid(itinerary)) =>
        /\ pc \in {"ev_call", "raised"}
        /\ ~(pc = "sv_done" /\ ret)

\* the second half of C24 alone: no candidate is reported feasible for a
\* structurally invalid itinerary
C24_FeasibleOnInvalid ==
    ~(pc = "sv_done" /\ ret /\ StructurallyInvalid(itinerary))

\* with an itinerary of zero legs an evaluation raises before the solver is called
C24_ZeroLegsRaises ==
    (pc \in {"raised", "sv_enter", "sv_loop", "sv_return", "sv_done"}
         /\ itinerary = <<>>) => pc = "raised"

\* a plan without data capacity or without validity
Degenerate(p) == p.data_mb <= 0 \/ p.validity_days <= 0

\* C25: a plan of non-positive data capacity or non-positive validity in a
\* candidate is offered to no leg, supplies 0 MB to every leg and is never
\* activated; the evaluation raises only for an itinerary of zero days, whatever
\* the plans are.
C25_DegeneratePlans ==
    /\ pc \in {"sv_enter", "sv_loop", "sv_return", "sv_done"} =>
           \A i \in 1..Len(plans) :
               Degenerate(plans[i]) =>
                   /\ plans[i].start_time = NotStarted
                   /\ plans[i].remaining_mb = plans[i].effective_mb
                   /\ \A s \in 1..Len(segs) : alloc[i][s] = 0
                   /\ \A f \in 1..Len(stack) : stack[f].possible[i] = None
    /\ pc = "raised" => TotalDays(itinerary) = 0

\* a verdict, feasible, for a candidate that holds a degenerate plan
C25_Witness ==
    /\ pc = "sv_done"
    /\ ret
    /\ \E i \in 1..Len(plans) : Degenerate(plans[i])

\* a verdict, infeasible, for a candidate of degenerate plans only
C25_Witness_Infeasible ==
    /\ pc = "sv_done"
    /\ ~ret
    /\ TotalDays(itinerary) > 0
    /\ \A i \in 1..Len(plans) : Degenerate(plans[i])

-----------------------------------------------------------------------------
(* Completeness of the greedy solver *)

\* what plan p, activated at the start of leg a, may supply to leg s at most:
\* nothing to a leg it does not cover or that its window does not overlap
MaySupply(p, a, s, sg) ==
    LET overlap == Max(0, Min(sg[a].start + p.effective_days, sg[s].end)
                          - Max(sg[a].start, sg[s].start))
    IN  IF a = 0 \/ s < a \/ ~(sg[s].slug \in p.coverage) \/ overlap <= 0 THEN 0
        ELSE IF DailyCapped(p) THEN p.daily_cap * overlap * TOTAL_DURATION
        ELSE p.effective_mb

\* what plan p, activated at the start of leg a, may supply to the legs of S in all
MaySupplyAll(p, a, S, sg) ==
    LET sum == SumSeq([s \in 1..Len(sg) |->
                          IF s \in S THEN MaySupply(p, a, s, sg) ELSE 0])
    IN  IF DailyCapped(p) THEN sum ELSE Min(p.effective_mb, sum)

\* Some apportionment exists: activation legs act (0 for a plan left unused) with
\* which every set of legs can draw what it requires from the plans (by max-flow
\* min-cut this is the existence of amounts per plan and leg within the coverage,
\* the windows and the capacities that meet every leg's requirement).
Apportionable(ps, sg) ==
    \E act \in [1..Len(ps) -> 0..Len(sg)] :
        \A S \in SUBSET (1..Len(sg)) :
            SumSeq([s \in 1..Len(sg) |-> IF s \in S THEN sg[s].mb_needed ELSE 0])
                <= SumSeq([i \in 1..Len(ps) |-> MaySupplyAll(ps[i], act[i], S, sg)])

\* C26: the solver is a single greedy pass. What it reports feasible can be
\* apportioned, and an infeasible verdict follows one attempt per leg in order up
\* to the first leg that fails; the converse, that whatever can be apportioned is
\* reported feasible, does not hold (C26_Witness).
C26_SinglePass ==
    pc = "sv_done" =>
        /\ ret => Apportionable(plans0, segs)
        /\ ~ret => /\ attempts = [n \in 1..Len(attempts) |-> n]
                   /\ Untouched(plans)

\* the solver reports infeasible for plans that can be apportioned
C26_Witness ==
    /\ pc = "sv_done"
    /\ ~ret
    /\ Apportionable(plans0, segs)

\* completeness, which the solver does not have
C26_Complete ==
    (pc = "sv_done" /\ Apportionable(plans0, segs)) => ret

\* C27: once the pre-check of a leg has passed, the greedy loop ends with nothing
\* left to fill, so the branch "if left_to_fill > 1" is never taken: a call returns
\* False either at its pre-check, with no plan or frame changed for that leg, or
\* because the call for the next leg returned False.
C27_Step ==
    /\ (pc = "sv_loop" /\ (Top.order = <<>> \/ Top.left_to_fill <= 0)) =>
           /\ Top.left_to_fill <= 0
           /\ pc' = "sv_enter"
    /\ (pc = "sv_enter" /\ pc' = "sv_return" /\ ~ret') =>
           /\ plans' = plans
           /\ stack' = stack
           /\ alloc' = alloc
    /\ (pc' = "sv_return" /\ ~ret') => pc \in {"sv_enter", "sv_return"}

C27_PostLoopBranchDead == [][C27_Step]_vars

\* the loop has used up every candidate of a leg, two or more, and the leg is
\* exactly filled
C27_Witness ==
    /\ pc = "sv_loop"
    /\ Top.order = <<>>
    /\ Top.left_to_fill = 0
    /\ \E i, j \in 1..Len(plans) :
           i # j /\ alloc[i][Top.seg_idx] > 0 /\ alloc[j][Top.seg_idx] > 0

\* --------------------------------------------------------------------------
\* C28: two occurrences of one catalog plan in a candidate have a remaining
\* capacity and an activation day each.  A step of the allocation loop
\* changes the state of the occurrence at the head of the order and of no
\* other one; a rollback changes only the occurrences its frame recorded in
\* consumed_ops, and gives every other occurrence back as it was.
Recorded(j) == \E o \in 1..Len(Top.consumed_ops) : Top.consumed_ops[o].p = j

C28_Step ==
    /\ (pc = "sv_loop" /\ Top.order # <<>> /\ Top.left_to_fill > 0) =>
           \A j \in 1..Len(plans) :
               j # Head(Top.order) => plans'[j] = plans[j]
    /\ (pc = "sv_return" /\ stack # <<>> /\ Len(stack') < Len(stack)
            /\ Len(plans') = Len(plans)) =>
           \A j \in 1..Len(plans) :
               ~Recorded(j) => plans'[j] = plans[j]

C28_OccurrencesIndependent == [][C28_Step]_vars

\* the same catalog plan bought twice, the first purchase activated and partly
\* consumed while the second one is still as it was bought
C28_Witness ==
    /\ pc = "sv_loop"
    /\ \E i, j \in 1..Len(plans) :
           /\ i # j
           /\ SameCatalogPlan(plans0[i], plans0[j])
           /\ plans[i].start_time # NotStarted
           /\ plans[i].remaining_mb < plans0[i].remaining_mb
           /\ plans[j].start_time = NotStarted
           /\ plans[j].remaining_mb = plans0[j].remaining_mb

\* two purchases of one plan and nothing else: the first filled leg 1 and is
\* empty, so the second filled leg 2; leg 3 failed, the rollback of leg 2 has
\* given the second purchase back and the first keeps what it had consumed
C28_Witness_Rollback ==
    /\ pc = "sv_return"
    /\ ~ret
    /\ Len(plans) = 2
    /\ attempts = <<1, 2, 3>>
    /\ Len(stack) = 1
    /\ \E i, j \in 1..Len(plans) :
           /\ i # j
           /\ SameCatalogPlan(plans0[i], plans0[j])
           /\ plans[i].start_time # NotStarted
           /\ plans[i].remaining_mb = 0
           /\ plans[j].start_time = NotStarted
           /\ plans[j].remaining_mb = plans0[j].remaining_mb

\* --------------------------------------------------------------------------
\* C29: evaluate_itinerary answers invalid, with no working copies handed to
\* the timeline solver, for every candidate holding two or more new_user_only
\* purchases of one provider (the same plan twice included); for a candidate
\* with at most one such purchase per provider the answer is the one of the
\* timeline solver on its working copies.
NewUserPurchases(combo, pid) ==
    Cardinality({i \in 1..Len(combo) :
                     combo[i].new_user_only /\ combo[i].provider_id = pid})

ProvidersOf(combo) == {combo[i].provider_id : i \in 1..Len(combo)}

C29_Step ==
    (pc = "it_call" /\ cand_i <= Len(enumeration)) =>
        IF \E pid \in ProvidersOf(combo_plans) :
               NewUserPurchases(combo_plans, pid) >= 2
        THEN /\ res' = Invalid
             /\ pc' = "it_collect"
             /\ plans' = plans
        ELSE \E solved \in {check_timeline_validity(
                     [i \in 1..Len(combo_plans) |->
                          WorkingCopy(combo_plans[i], i - 1)])} :
                 /\ plans' = solved[2]
                 /\ (pc' = "it_cost") <=> solved[1]

C29_NewUserCheck == [][C29_Step]_vars

\* the same new_user_only plan bought twice, answered invalid before any
\* working copy was made: the plans of the evaluation are still those of the
\* candidate before, a single purchase
C29_Witness ==
    /\ pc = "it_collect"
    /\ res = Invalid
    /\ Len(combo_plans) = 2
    /\ combo_plans[1] = combo_plans[2]
    /\ combo_plans[1].new_user_only
    /\ Len(plans) = 1

\* two new_user_only purchases of two providers, accepted by the check and
\* found feasible
C29_Witness_TwoProviders ==
    /\ pc = "it_cost"
    /\ Len(combo_plans) = 2
    /\ combo_plans[1].new_user_only
    /\ combo_plans[2].new_user_only
    /\ combo_plans[1].provider_id # combo_plans[2].provider_id
    /\ Len(plans) = 2

\* --------------------------------------------------------------------------
\* optimize_with_input.evaluate_combination: the same statements as the
\* multi-region one except for the duration, which is added up over the
\* purchases ("dur += p['validity_days'] * qty")
RECURSIVE WiFrom(_, _, _, _)
WiFrom(indices, qtys, j, acc) ==
    IF j > Len(indices) THEN acc
    ELSE LET p == plans_data[indices[j]]
             qty == qtys[j]
         IN  WiFrom(indices, qtys, j + 1,
                [display_cost |-> DisplayCostAfter(acc.display_cost, p, qty,
                                                   acc.promo_used, hassle_penalty),
                 ranking_cost |-> RankingCostAfter(acc.ranking_cost, p, qty,
                                                   acc.promo_used, hassle_penalty),
                 promo_used |-> PromoUsedAfter(p, acc.promo_used),
                 total_activations |-> acc.total_activations + ActivationsAdded(p, qty),
                 total_topups |-> acc.total_topups + TopupsForPlan(p, qty),
                 total_accounts |-> acc.total_accounts + AccountsNeeded(p, qty),
                 data |-> acc.data + p.data_mb * qty,
                 dur |-> acc.dur + p.validity_days * qty])

\* the dict returned by optimize_with_input.evaluate_combination, with its "days"
WiEvaluate(indices, qtys) ==
    LET end == WiFrom(indices, qtys, 1,
                   [display_cost |-> 0, ranking_cost |-> 0, promo_used |-> {},
                    total_activations |-> 0, total_topups |-> 0,
                    total_accounts |-> 0, data |-> 0, dur |-> 0])
    IN  IF /\ WithinLimits(end.total_activations, end.total_topups)
           /\ MeetsRequirement(end.data, end.dur, trip_days, total_data_mb)
        THEN [display_cost |-> end.display_cost,
              ranking_cost |-> end.ranking_cost,
              days |-> end.dur,
              total_activations |-> end.total_activations,
              total_topups |-> end.total_topups,
              total_accounts |-> end.total_accounts]
        ELSE NoResult

\* C30: on every candidate the multi-region optimizer evaluates, the
\* interactive optimizer's evaluate_combination takes the same accept/reject
\* decision and, on acceptance, returns the same display cost, ranking cost,
\* covered days and activation, top-up and account counts.
C30_SameDecision ==
    pc = "collect" =>
        (WiEvaluate(combo_indices, qty_pattern) = NoResult <=> result = NoResult)

C30_SameResult ==
    (pc = "collect" /\ result # NoResult
        /\ WiEvaluate(combo_indices, qty_pattern) # NoResult) =>
        LET wi == WiEvaluate(combo_indices, qty_pattern)
        IN  /\ wi.display_cost = result.display_cost
            /\ wi.ranking_cost = result.ranking_cost
            /\ wi.days = dur
            /\ wi.total_activations = result.total_activations
            /\ wi.total_topups = result.total_topups
            /\ wi.total_accounts = result.total_accounts

C30_SameEvaluation == C30_SameDecision /\ C30_SameResult

\* the costs and the counts alone do agree whenever both accept
C30_SameCostsAndCounts ==
    (pc = "collect" /\ result # NoResult
        /\ WiEvaluate(combo_indices, qty_pattern) # NoResult) =>
        LET wi == WiEvaluate(combo_indices, qty_pattern)
        IN  /\ wi.display_cost = result.display_cost
            /\ wi.ranking_cost = result.ranking_cost
            /\ wi.total_activations = result.total_activations
            /\ wi.total_topups = result.total_topups
            /\ wi.total_accounts = result.total_accounts

\* whatever the multi-region optimizer accepts the interactive one accepts too
C30_MrAcceptedIsWiAccepted ==
    (pc = "collect" /\ result # NoResult) =>
        WiEvaluate(combo_indices, qty_pattern) # NoResult
====
